---- MODULE Spec2Model ----
(***************************************************************************)
(* Decision-tree construction, aggregation and navigation of the poker     *)
(* hand-history explorer (src/app/database_utils.py, tree_analysis.py,     *)
(* visualization.py, callbacks.py) and the XML import                      *)
(* (src/database_building.py).                                             *)
(*                                                                         *)
(* A Python dict is a TLA+ function whose DOMAIN is the set of keys        *)
(* present; a missing key is a key outside the DOMAIN.  The insertion      *)
(* order of a node's 'children' dict, which Python keeps and sorted()      *)
(* relies on for ties, is kept in the node's child_order sequence.         *)
(* A node referenced by a local variable of the code (current_node) is     *)
(* the path of child names that leads to it from the root.                 *)
(***************************************************************************)
EXTENDS Integers, Sequences, FiniteSets, TLC

VARIABLES
    pc,               \* position of the running handler
    inp,              \* the arguments of load_data: game_type, exclude_hero
    decision_tree,    \* load_decision_tree_data's decision_tree / its return value
    cur,              \* loop variables of load_decision_tree_data (game, street, sequencer)
    budget,           \* games and action rows read so far
    store,            \* Dash outputs of load_data: decision-tree-data and main-content style
    tree_data_cache,  \* callbacks._tree_data_cache: tree id -> tree
    aux               \* the input of a run that is no load of the application: the
                      \* games to build a tree from, the XML file with the lists
                      \* process_xml_file fills, the tree calculate_frequencies was given

vars == <<pc, inp, decision_tree, cur, budget, store, tree_data_cache, aux>>

-----------------------------------------------------------------------------
(* Bounds of the model *)

\* action rows of the database read by one load
MaxActions == 2

-----------------------------------------------------------------------------
(* Python dict and None *)

EmptyDict == <<>>

None == [none |-> TRUE]

Has(d, k) == k \in DOMAIN d

Get(d, k, dflt) == IF k \in DOMAIN d THEN d[k] ELSE dflt

Put(d, k, v) == [x \in (DOMAIN d) \cup {k} |-> IF x = k THEN v ELSE d[x]]

Max(a, b) == IF a >= b THEN a ELSE b

RECURSIVE SumOver(_, _)
SumOver(f, S) ==
    IF S = {} THEN 0
    ELSE LET k == CHOOSE x \in S : TRUE IN f[k] + SumOver(f, S \ {k})

\* sum(d.values())
SumValues(d) == SumOver(d, DOMAIN d)

-----------------------------------------------------------------------------
(* Vocabulary: the strings the code tests with 'in' and '=='               *)

\* round_map, database_utils.py line 182
round_map == [r \in 1..4 |-> <<"preflop", "flop", "turn", "river">>[r]]

StreetNames == {"preflop", "flop", "turn", "river"}

\* position labels written by process_xml_file
PositionNames == {"BTN/SB", "BB", "SB", "BTN", "unknown"}

\* simple_action_type values written by simplify_action for rounds >= 1
BucketNames ==
    {"fold", "call", "check", "ante", "all_in_call", "all_in_preflop",
     "all_in_postflop", "small_bet_postflop", "mid_bet_postflop",
     "big_bet_postflop", "unusual_bet_preflop", "small_raise_preflop",
     "mid_raise_preflop", "big_raise_preflop", "consider_all_in_preflop",
     "small_raise_postflop", "mid_raise_postflop", "big_raise_postflop"}

\* 'BTN' in position or 'SB' in position
IsBtnOrSb(position) == position \in {"BTN/SB", "BTN", "SB"}

\* 'BB' in position
IsBb(position) == position = "BB"

\* 'check' in action_type
HasCheck(action_type) == action_type = "check"

\* 'all_in' in action_type
HasAllIn(action_type) ==
    action_type \in {"all_in_call", "all_in_preflop", "all_in_postflop",
                     "consider_all_in_preflop"}

\* 'call' in action_type
HasCall(action_type) == action_type \in {"call", "all_in_call"}

-----------------------------------------------------------------------------
(* Tree nodes *)

\* decision_tree, database_utils.py lines 170-179
StreetNode(name) == [name |-> name, children |-> EmptyDict, child_order |-> <<>>]

InitialTree(exclude_hero) ==
    [name |-> "root",
     children |-> [s \in StreetNames |-> StreetNode(s)],
     child_order |-> <<"preflop", "flop", "turn", "river">>,
     exclude_hero |-> exclude_hero]

\* the first position's node (lines 243-248) and the non-heads-up nodes
\* (lines 394-399, 439-444): no hole-card dicts yet
PlainNode(name) ==
    [name |-> name, children |-> EmptyDict, child_order |-> <<>>,
     actions |-> EmptyDict, hero_actions |-> EmptyDict]

\* action nodes and opposing-position nodes of the heads-up sequencer
FullNode(name) ==
    [name |-> name, children |-> EmptyDict, child_order |-> <<>>,
     actions |-> EmptyDict, hero_actions |-> EmptyDict,
     hole_cards |-> EmptyDict, hero_hole_cards |-> EmptyDict]

\* mutant: the opponent's node under an all-in raise is created without the flag
FacingNode_unflagged(name) == FullNode(name)

\* lines 357-365: the opponent's node under an all-in raise
FacingNode(name) == Put(FullNode(name), "facing_all_in", TRUE)

SyntheticNode(name) ==
    Put(Put(FullNode(name), "is_synthetic", TRUE), "is_terminal", TRUE)

\* node['children'][name] = child, for a name not yet present
AddChild(node, name, child) ==
    [node EXCEPT !.children = Put(@, name, child),
                 !.child_order = Append(@, name)]

\* d[k] += 1, creating the entry at 0 first
Incr(d, k) == Put(d, k, Get(d, k, 0) + 1)

RECURSIVE GetAt(_, _)
GetAt(node, path) ==
    IF path = <<>> THEN node ELSE GetAt(node.children[Head(path)], Tail(path))

RECURSIVE SetAt(_, _, _)
SetAt(node, path, new) ==
    IF path = <<>> THEN new
    ELSE [node EXCEPT !.children[Head(path)] = SetAt(@, Tail(path), new)]

\* every path of child names of the tree, the empty path (the node itself) included
RECURSIVE PathsOf(_)
PathsOf(node) ==
    {<<>>} \cup
    (IF Has(node, "children")
     THEN UNION {{<<c>> \o p : p \in PathsOf(node.children[c])} : c \in DOMAIN node.children}
     ELSE {})

-----------------------------------------------------------------------------
(* Rows of the database, as the queries of load_decision_tree_data join them *)

\* one row of actions_query: the action's bucket with the position, hero flag
\* and hole-card category of the player who made it.  category is "none" when
\* hole_cards_dict holds no entry for the player.
ActionRow(players, player, action_type) ==
    [position |-> players[player].position,
     is_hero |-> players[player].is_hero,
     category |-> players[player].category,
     type |-> action_type]

-----------------------------------------------------------------------------
(* Heads-up sequencing, database_utils.py lines 218-389 *)

\* lines 226-230: the last BTN/SB row and the last BB row of game_players
RECURSIVE LastMatching(_, _, _)
LastMatching(players, i, which) ==
    IF i = 0 THEN "none"
    ELSE LET p == players[i].position
             isBtn == IsBtnOrSb(p)
             isBb == ~isBtn /\ IsBb(p)
         IN IF (which = "btn" /\ isBtn) \/ (which = "bb" /\ isBb)
            THEN p
            ELSE LastMatching(players, i - 1, which)

btn_pos(players) == LastMatching(players, Len(players), "btn")

bb_pos(players) == LastMatching(players, Len(players), "bb")

\* lines 220-221 and 233-234: the street of this game is skipped
HeadsUpSkipped(players) ==
    \/ Len(players) # 2
    \/ btn_pos(players) = "none"
    \/ bb_pos(players) = "none"

\* mutant: the button opens every street
first_position_button(players, street) == btn_pos(players)

\* lines 238-239
first_position(players, street) ==
    IF street = "preflop" THEN btn_pos(players) ELSE bb_pos(players)

second_position(players, street) ==
    IF first_position(players, street) = btn_pos(players)
    THEN bb_pos(players) ELSE btn_pos(players)

\* lines 241-260: the first position's node is created and the sequencer's
\* local variables are reset
BeginHeadsUpStreet(tree, players, street) ==
    LET fp == first_position(players, street)
        sn == tree.children[street]
        sn1 == IF Has(sn.children, fp) THEN sn ELSE AddChild(sn, fp, PlainNode(fp))
    IN [tree |-> [tree EXCEPT !.children[street] = sn1],
        current_node |-> <<street, fp>>,
        current_position |-> fp,
        next_position |-> second_position(players, street),
        facing_all_in |-> FALSE,
        is_terminal |-> FALSE]

\* lines 289-306: hole-card tracking at the acting position's node
TrackHoleCardsAtNode(node, a) ==
    LET n1 == IF Has(node, "hole_cards") THEN node
              ELSE Put(Put(node, "hole_cards", EmptyDict), "hero_hole_cards", EmptyDict)
    IN IF a.category = "none" THEN n1
       ELSE IF a.is_hero
            THEN [n1 EXCEPT !.hero_hole_cards = Incr(@, a.category)]
            ELSE [n1 EXCEPT !.hole_cards = Incr(@, a.category)]

\* lines 322-337: hole-card tracking at the action node
TrackHoleCardsAtAction(action_node, a) ==
    IF a.category = "none" \/ a.category = "Unknown" THEN action_node
    ELSE IF a.is_hero
         THEN [action_node EXCEPT !.hero_hole_cards = Incr(@, a.category)]
         ELSE [action_node EXCEPT !.hole_cards = Incr(@, a.category)]

\* mutant: the hero's action is counted twice as the hero's
CountAction_hero_twice(node, a) ==
    LET n1 == IF Has(node.actions, a.type) THEN node
              ELSE [node EXCEPT !.actions = Put(@, a.type, 0),
                                !.hero_actions = Put(@, a.type, 0)]
        n2 == [n1 EXCEPT !.actions[a.type] = @ + 1]
    IN IF a.is_hero THEN [n2 EXCEPT !.hero_actions[a.type] = @ + 2] ELSE n2

\* mutant: every action is counted as the hero's
CountAction_all_hero(node, a) ==
    LET n1 == IF Has(node.actions, a.type) THEN node
              ELSE [node EXCEPT !.actions = Put(@, a.type, 0),
                                !.hero_actions = Put(@, a.type, 0)]
        n2 == [n1 EXCEPT !.actions[a.type] = @ + 1]
    IN [n2 EXCEPT !.hero_actions[a.type] = @ + 1]

\* mutant: the hero's count is set to the action's count instead of incremented
CountAction_hero_set(node, a) ==
    LET n1 == IF Has(node.actions, a.type) THEN node
              ELSE [node EXCEPT !.actions = Put(@, a.type, 0),
                                !.hero_actions = Put(@, a.type, 0)]
        n2 == [n1 EXCEPT !.actions[a.type] = @ + 1]
    IN IF a.is_hero THEN [n2 EXCEPT !.hero_actions[a.type] = n2.actions[a.type]] ELSE n2

\* lines 279-286: the action is counted at the current node
CountAction(node, a) ==
    LET n1 == IF Has(node.actions, a.type) THEN node
              ELSE [node EXCEPT !.actions = Put(@, a.type, 0),
                                !.hero_actions = Put(@, a.type, 0)]
        n2 == [n1 EXCEPT !.actions[a.type] = @ + 1]
    IN IF a.is_hero THEN [n2 EXCEPT !.hero_actions[a.type] = @ + 1] ELSE n2

\* mutant: a row is read on after a terminal action
Skipped_unless_terminal(st, a) ==
    \/ a.position # st.current_position
    \/ st.facing_all_in /\ a.type \notin {"call", "fold", "all_in_call"}

\* mutant: the player facing an all-in may answer with any action
Skipped_any_answer(st, a) ==
    \/ a.position # st.current_position
    \/ st.is_terminal

\* lines 270 and 274: the row is skipped
Skipped(st, a) ==
    \/ a.position # st.current_position
    \/ st.is_terminal
    \/ st.facing_all_in /\ a.type \notin {"call", "fold", "all_in_call"}

\* lines 264-389: one iteration of the loop over the street's actions
SequenceAction(st, a) ==
    IF Skipped(st, a) THEN st
    ELSE
      LET node0 == GetAt(st.tree, st.current_node)
          node1 == TrackHoleCardsAtNode(CountAction(node0, a), a)
          node2 == IF Has(node1.children, a.type) THEN node1
                   ELSE AddChild(node1, a.type, FullNode(a.type))
          action_node == TrackHoleCardsAtAction(node2.children[a.type], a)
          allInRaise == HasAllIn(a.type) /\ ~HasCall(a.type)
          terminal ==
              \/ a.type = "fold"
              \/ /\ ~HasCheck(a.type)
                 /\ ~allInRaise
                 /\ (HasCall(a.type) /\ st.facing_all_in) \/ a.type = "all_in_call"
          stays == terminal \/ HasCheck(a.type)
          opp == IF allInRaise THEN FacingNode(st.next_position)
                 ELSE FullNode(st.next_position)
          action_node2 ==
              IF stays \/ Has(action_node.children, st.next_position)
              THEN action_node
              ELSE AddChild(action_node, st.next_position, opp)
          node3 == [node2 EXCEPT !.children[a.type] = action_node2]
          tree2 == SetAt(st.tree, st.current_node, node3)
      IN IF stays
         THEN [st EXCEPT !.tree = tree2,
                         !.is_terminal = terminal]
         ELSE [st EXCEPT !.tree = tree2,
                         !.facing_all_in = @ \/ allInRaise,
                         !.current_node = @ \o <<a.type, st.next_position>>,
                         !.current_position = st.next_position,
                         !.next_position = st.current_position]

-----------------------------------------------------------------------------
(* Non-heads-up sequencing, database_utils.py lines 390-446 *)

\* lines 393-402: the position's node is created and becomes current_node
BeginPositionGroup(tree, street, position) ==
    LET sn == tree.children[street]
        sn1 == IF Has(sn.children, position) THEN sn
               ELSE AddChild(sn, position, PlainNode(position))
    IN [tree |-> [tree EXCEPT !.children[street] = sn1],
        current_node |-> <<street, position>>]

\* mutant: every action of the position is counted at the position's node
ChainAction_flat(st, a) ==
    LET node0 == GetAt(st.tree, st.current_node)
        node1 == TrackHoleCardsAtNode(CountAction(node0, a), a)
        node2 == IF Has(node1.children, a.type) THEN node1
                 ELSE AddChild(node1, a.type, PlainNode(a.type))
    IN [st EXCEPT !.tree = SetAt(st.tree, st.current_node, node2)]

\* lines 419-436: as TrackHoleCardsAtNode
\* lines 405-446: one iteration of the loop over the position's actions
ChainAction(st, a) ==
    LET node0 == GetAt(st.tree, st.current_node)
        node1 == TrackHoleCardsAtNode(CountAction(node0, a), a)
        node2 == IF Has(node1.children, a.type) THEN node1
                 ELSE AddChild(node1, a.type, PlainNode(a.type))
    IN [st EXCEPT !.tree = SetAt(st.tree, st.current_node, node2),
                  !.current_node = @ \o <<a.type>>]

-----------------------------------------------------------------------------
(* Completion pass, database_utils.py lines 449-483 *)

\* mutant: the fold check made an 'elif' of the call check
RECURSIVE complete_terminal_actions_elif(_)
complete_terminal_actions_elif(node) ==
    LET facing == Has(node, "facing_all_in") /\ node.facing_all_in
        n1 == IF facing /\ ~Has(node.children, "call")
              THEN AddChild(node, "call", SyntheticNode("call"))
              ELSE IF facing /\ ~Has(node.children, "fold")
                   THEN AddChild(node, "fold", SyntheticNode("fold")) ELSE node
    IN IF Has(n1, "children")
       THEN [n1 EXCEPT !.children =
                [c \in DOMAIN n1.children |-> complete_terminal_actions_elif(n1.children[c])]]
       ELSE n1

\* mutant: the synthetic call replaces a call child that is there
RECURSIVE complete_terminal_actions_overwrite(_)
complete_terminal_actions_overwrite(node) ==
    LET facing == Has(node, "facing_all_in") /\ node.facing_all_in
        n1 == IF facing
              THEN [node EXCEPT !.children = Put(@, "call", SyntheticNode("call")),
                                !.child_order = IF Has(node.children, "call") THEN @
                                                ELSE Append(@, "call")]
              ELSE node
        n2 == IF facing /\ ~Has(n1.children, "fold")
              THEN AddChild(n1, "fold", SyntheticNode("fold")) ELSE n1
    IN IF Has(n2, "children")
       THEN [n2 EXCEPT !.children =
                [c \in DOMAIN n2.children |-> complete_terminal_actions_overwrite(n2.children[c])]]
       ELSE n2

RECURSIVE complete_terminal_actions(_)
complete_terminal_actions(node) ==
    LET facing == Has(node, "facing_all_in") /\ node.facing_all_in
        n1 == IF facing /\ ~Has(node.children, "call")
              THEN AddChild(node, "call", SyntheticNode("call")) ELSE node
        n2 == IF facing /\ ~Has(n1.children, "fold")
              THEN AddChild(n1, "fold", SyntheticNode("fold")) ELSE n1
    IN IF Has(n2, "children")
       THEN [n2 EXCEPT !.children =
                [c \in DOMAIN n2.children |-> complete_terminal_actions(n2.children[c])]]
       ELSE n2

\* lines 481-483: the pass is applied to each street node
CompleteStreets(tree) ==
    [tree EXCEPT !.children =
        [s \in DOMAIN tree.children |-> complete_terminal_actions(tree.children[s])]]

-----------------------------------------------------------------------------
(* Frequency aggregation, tree_analysis.py lines 6-83 *)

\* line 28: max(0, actions[action] - hero_actions.get(action, 0))
\* mutant: the distance between the two counts instead of max(0, difference)
NonHeroOf_distance(actions, hero_actions, action) ==
    IF Get(actions, action, 0) >= Get(hero_actions, action, 0)
    THEN Get(actions, action, 0) - Get(hero_actions, action, 0)
    ELSE Get(hero_actions, action, 0) - Get(actions, action, 0)

NonHeroOf(actions, hero_actions, action) ==
    Max(0, Get(actions, action, 0) - Get(hero_actions, action, 0))

\* lines 26-35
non_hero_actions(node) ==
    IF Has(node, "hero_actions")
    THEN [action \in DOMAIN node.actions |->
              NonHeroOf(node.actions, node.hero_actions, action)]
    ELSE node.actions

\* lines 42-55: (count / total) * 100 as the exact fraction <<count * 100, total>>,
\* zero counts skipped
Percentages(counts, total) ==
    [action \in {k \in DOMAIN counts : counts[k] > 0} |->
        <<counts[action] * 100, total>>]

\* lines 21-59: the node's own action counts
WithActionCounts(node) ==
    IF Has(node, "actions") /\ DOMAIN node.actions # {}
    THEN LET total_actions_count == SumValues(node.actions)
             non_hero_actions_count == SumValues(non_hero_actions(node))
             n1 == Put(Put(node, "total_action_count", total_actions_count),
                       "non_hero_action_count", non_hero_actions_count)
             n2 == IF total_actions_count > 0
                   THEN Put(n1, "action_percentages_total",
                            Percentages(node.actions, total_actions_count))
                   ELSE n1
         IN IF non_hero_actions_count > 0
            THEN Put(n2, "action_percentages_non_hero",
                     Percentages(non_hero_actions(node), non_hero_actions_count))
            ELSE n2
    ELSE node

\* mutant: every child is added to the counts
CountedChildren_all(children) == DOMAIN children

\* line 67: only non-synthetic children are added to the counts
CountedChildren(children) ==
    {c \in DOMAIN children : ~Get(children[c], "is_synthetic", FALSE)}

\* The node after calculate_frequencies(node) has run on it; the pair the
\* function returns is (total_count, non_hero_count) of the result.
RECURSIVE calculate_frequencies(_)
calculate_frequencies(node) ==
    LET n1 == WithActionCounts(node)
        own_total == Get(n1, "total_action_count", 0)
        own_non_hero == Get(n1, "non_hero_action_count", 0)
    IN IF Has(node, "children")
       THEN LET kids == [c \in DOMAIN node.children |->
                            calculate_frequencies(node.children[c])]
                counted == CountedChildren(kids)
                n2 == [n1 EXCEPT !.children = kids]
                n3 == IF DOMAIN kids = {} THEN n2
                      ELSE Put(Put(n2, "child_counts",
                                   [c \in DOMAIN kids |-> kids[c].total_count]),
                               "child_counts_non_hero",
                               [c \in DOMAIN kids |-> kids[c].non_hero_count])
            IN Put(Put(n3, "total_count",
                       own_total + SumOver([c \in counted |-> kids[c].total_count], counted)),
                   "non_hero_count",
                   own_non_hero + SumOver([c \in counted |-> kids[c].non_hero_count], counted))
       ELSE Put(Put(n1, "total_count", own_total), "non_hero_count", own_non_hero)

-----------------------------------------------------------------------------
(* Path navigation, tree_analysis.py lines 85-130 *)

\* A path key is the sequence of its '-'-separated components: the string
\* "preflop-BB" is <<"preflop", "BB">>, a key without '-' has one component.
\* Node names hold no '-'.
PlainKey(name) == <<name>>

\* mutant: the part before the first '-' is taken
child_name_of_first(step) == step[1]

\* lines 109-113: step.split('-')[-1] when '-' is in the step
child_name_of(step) == IF Len(step) > 1 THEN step[Len(step)] ELSE step[1]

\* lines 102-130: the loop from step i on
RECURSIVE WalkPath(_, _, _)
WalkPath(current_node, path, i) ==
    IF i > Len(path) THEN current_node
    ELSE IF i = 1 /\ path[1] = PlainKey("root") THEN WalkPath(current_node, path, i + 1)
    ELSE LET child_name == child_name_of(path[i])
         IN IF Has(current_node, "children") /\ Has(current_node.children, child_name)
            THEN WalkPath(current_node.children[child_name], path, i + 1)
            ELSE None

get_node_by_path(tree_data, path) ==
    IF tree_data = None \/ DOMAIN tree_data = {} \/ path = <<>>
    THEN tree_data
    ELSE WalkPath(tree_data, path, 1)

-----------------------------------------------------------------------------
(* Listing the children of a node: visualization.py lines 203-216 and the  *)
(* same sorted(...) call in callbacks.py lines 247-259, 484-496, 527-539,  *)
(* 700-712                                                                 *)

\* mutant: the synthetic test inverted
child_sort_key_inverted(child, exclude_hero) ==
    IF Get(child, "is_synthetic", FALSE)
    THEN (IF exclude_hero THEN Get(child, "non_hero_count", 0)
          ELSE Get(child, "total_count", 0))
    ELSE -1

\* the sort key
child_sort_key(child, exclude_hero) ==
    IF ~Get(child, "is_synthetic", FALSE)
    THEN (IF exclude_hero THEN Get(child, "non_hero_count", 0)
          ELSE Get(child, "total_count", 0))
    ELSE -1

\* sorted(items, key=..., reverse=True) is stable: items with equal keys keep
\* the order they had.  Insert x after the last item whose key is >= key(x).
RECURSIVE InsertDescending(_, _, _, _)
InsertDescending(sorted, x, children, exclude_hero) ==
    IF sorted = <<>> THEN <<x>>
    ELSE IF child_sort_key(children[Head(sorted)], exclude_hero)
              >= child_sort_key(children[x], exclude_hero)
         THEN <<Head(sorted)>> \o InsertDescending(Tail(sorted), x, children, exclude_hero)
         ELSE <<x>> \o sorted

RECURSIVE SortDescending(_, _, _)
SortDescending(names, children, exclude_hero) ==
    IF names = <<>> THEN <<>>
    ELSE InsertDescending(
             SortDescending(SubSeq(names, 1, Len(names) - 1), children, exclude_hero),
             names[Len(names)], children, exclude_hero)

\* the names of the node's children in the order they are listed
sorted_children(node, exclude_hero) ==
    SortDescending(node.child_order, node.children, exclude_hero)

-----------------------------------------------------------------------------
(* Inputs: what the database can hold for the games that pass the filter *)

GameTypes == {"heads_up", "all"}

\* the rounds of the action rows: round 0 holds the blinds, 1 is preflop, 2 the flop
Rounds == {0, 1, 2}

\* a game's first action row is a blind or, without blinds, a preflop action;
\* its rounds follow one another
FirstRounds == {0, 1}

\* simple_action_type by round: raw type names in round 0 (process_xml_file
\* lines 469-481), buckets of simplify_action in the betting rounds
TypesOfRound(r) ==
    IF r = 0 THEN {"small_blind"}
    ELSE IF r = 1
         THEN {"fold", "call", "check", "small_raise_preflop", "all_in_preflop"}
         ELSE {"call", "check", "small_bet_postflop", "all_in_postflop"}

\* game_players rows of one game: the position process_xml_file gives each
\* player (lines 318-345, 363), who the hero is, and each player's hole-card
\* category ("none": no usable Pocket row; "NoneNone": categorize_hand of the
\* hidden cards "X X"; "Unknown": categorize_hand of a card list that is not
\* a pair of cards)
PlayersOf(positions, hero, deal) ==
    [i \in 1..Len(positions) |->
        [position |-> positions[i],
         is_hero |-> (i = hero),
         category |-> deal[i]]]

\* the games the filter lets through: two-player games for "heads_up" (one
\* of them without a small blind, so without a BTN/SB), two- and four-player
\* games for "all"
GamePlayers(game_type) ==
    IF game_type = "heads_up"
    THEN {PlayersOf(<<"BTN/SB", "BB">>, 1, <<"AKs", "NoneNone">>),
          PlayersOf(<<"BTN/SB", "BB">>, 2, <<"Unknown", "AKs">>),
          PlayersOf(<<"unknown", "BB">>, 1, <<"AKs", "NoneNone">>)}
    ELSE {PlayersOf(<<"BTN/SB", "BB">>, 1, <<"AKs", "NoneNone">>),
          PlayersOf(<<"SB", "BB", "unknown", "unknown">>, 3,
                    <<"none", "none", "AKs", "NoneNone">>)}

\* groupby('position') visits the positions in sorted order
PositionRank(position) ==
    CASE position = "BB" -> 1
      [] position = "BTN" -> 2
      [] position = "BTN/SB" -> 3
      [] position = "SB" -> 4
      [] OTHER -> 5

-----------------------------------------------------------------------------
(* load_data and load_decision_tree_data, one action row per step *)

NoPlayers == <<>>

IdleSeq ==
    [tree |-> None, current_node |-> <<>>, current_position |-> "none",
     next_position |-> "none", facing_all_in |-> FALSE, is_terminal |-> FALSE]

IdleCur ==
    [players |-> NoPlayers, round |-> -1, mode |-> "none", folded |-> {}, seq |-> IdleSeq]

\* id(tree_data): an opaque value, distinct from the ids of the trees alive
TreeIds == {"id_a"}

Init ==
    /\ pc = "idle"
    /\ inp = [game_type |-> "heads_up", exclude_hero |-> TRUE]
    /\ decision_tree = None
    /\ cur = IdleCur
    /\ budget = [games |-> 0, actions |-> 0]
    /\ store = [data |-> None, style |-> "none"]
    /\ tree_data_cache = EmptyDict
    /\ aux = None

\* the sequencer's variables without the tree they point into
Locals(st) == [st EXCEPT !.tree = None]

\* lines 208-261 and 390-402 for the first row of a street group, then the row
StartStreet(tree, players, r, row, game_type) ==
    IF r \notin DOMAIN round_map
    THEN [mode |-> "skip", seq |-> [IdleSeq EXCEPT !.tree = tree]]
    ELSE IF game_type = "heads_up"
    THEN IF HeadsUpSkipped(players)
         THEN [mode |-> "skip", seq |-> [IdleSeq EXCEPT !.tree = tree]]
         ELSE [mode |-> "hu",
               seq |-> SequenceAction(BeginHeadsUpStreet(tree, players, round_map[r]), row)]
    ELSE LET g == BeginPositionGroup(tree, round_map[r], row.position)
         IN [mode |-> "chain",
             seq |-> ChainAction([IdleSeq EXCEPT !.tree = g.tree,
                                                 !.current_node = g.current_node,
                                                 !.current_position = row.position],
                                 row)]

\* load_decision_tree_data lines 76-182: some game passes the filter
LoadBegin ==
    /\ pc = "idle"
    /\ \E game_type \in GameTypes, exclude_hero \in BOOLEAN :
          /\ inp' = [game_type |-> game_type, exclude_hero |-> exclude_hero]
          /\ decision_tree' = InitialTree(exclude_hero)
    /\ pc' = "games"
    /\ UNCHANGED <<cur, budget, store, tree_data_cache, aux>>

\* the players of the game who folded, after the row: a player who folded has
\* no later action row in the game
FoldedAfter(folded, player, action_type) ==
    IF action_type = "fold" THEN folded \cup {player} ELSE folded

Sequenced(r, players, folded, res) ==
    /\ decision_tree' = res.seq.tree
    /\ cur' = [players |-> players, round |-> r, mode |-> res.mode,
               folded |-> folded, seq |-> Locals(res.seq)]

\* lines 199-208: the first action row of the next game
NewGameRow ==
    /\ pc \in {"games", "rows"}
    /\ budget.actions < MaxActions
    /\ \E players \in GamePlayers(inp.game_type), r \in FirstRounds :
         \E player \in 1..Len(players), t \in TypesOfRound(r) :
            Sequenced(r, players, FoldedAfter({}, player, t),
                      StartStreet(decision_tree, players, r,
                                  ActionRow(players, player, t), inp.game_type))
    /\ budget' = [games |-> budget.games + 1, actions |-> budget.actions + 1]
    /\ pc' = "rows"
    /\ UNCHANGED <<inp, store, tree_data_cache, aux>>

\* line 208: the first action row of the game's next round
NewStreetRow ==
    /\ pc = "rows"
    /\ budget.actions < MaxActions
    /\ \E r \in Rounds :
         /\ r = cur.round + 1
         /\ \E player \in (1..Len(cur.players)) \ cur.folded, t \in TypesOfRound(r) :
               Sequenced(r, cur.players, FoldedAfter(cur.folded, player, t),
                         StartStreet(decision_tree, cur.players, r,
                                     ActionRow(cur.players, player, t), inp.game_type))
    /\ budget' = [budget EXCEPT !.actions = @ + 1]
    /\ UNCHANGED <<pc, inp, store, tree_data_cache, aux>>

\* lines 264-389 (heads-up) and 405-446 (the same position's next row), and
\* the rows of a skipped street: the next action row of the same round
SameStreetRow ==
    /\ pc = "rows"
    /\ budget.actions < MaxActions
    /\ \E player \in (1..Len(cur.players)) \ cur.folded, t \in TypesOfRound(cur.round) :
         LET row == ActionRow(cur.players, player, t)
             st == [cur.seq EXCEPT !.tree = decision_tree]
             folded == FoldedAfter(cur.folded, player, t)
         IN CASE cur.mode = "skip" ->
                   /\ decision_tree' = decision_tree
                   /\ cur' = [cur EXCEPT !.folded = folded]
              [] cur.mode = "hu" ->
                   Sequenced(cur.round, cur.players, folded,
                             [mode |-> "hu", seq |-> SequenceAction(st, row)])
              [] cur.mode = "chain" ->
                   /\ row.position = cur.seq.current_position
                   /\ Sequenced(cur.round, cur.players, folded,
                                [mode |-> "chain", seq |-> ChainAction(st, row)])
    /\ budget' = [budget EXCEPT !.actions = @ + 1]
    /\ UNCHANGED <<pc, inp, store, tree_data_cache, aux>>

\* lines 392-402: the first row of the next position group of the street
NewGroupRow ==
    /\ pc = "rows"
    /\ cur.mode = "chain"
    /\ budget.actions < MaxActions
    /\ \E player \in (1..Len(cur.players)) \ cur.folded, t \in TypesOfRound(cur.round) :
         LET row == ActionRow(cur.players, player, t)
             g == BeginPositionGroup(decision_tree, round_map[cur.round], row.position)
         IN /\ PositionRank(row.position) > PositionRank(cur.seq.current_position)
            /\ Sequenced(cur.round, cur.players, FoldedAfter(cur.folded, player, t),
                         [mode |-> "chain",
                          seq |-> ChainAction([IdleSeq EXCEPT
                                                  !.tree = g.tree,
                                                  !.current_node = g.current_node,
                                                  !.current_position = row.position],
                                              row)])
    /\ budget' = [budget EXCEPT !.actions = @ + 1]
    /\ UNCHANGED <<pc, inp, store, tree_data_cache, aux>>

\* mutant: the frequencies are calculated before the completion pass
FinishTree_frequencies_first(tree, games) ==
    Put(CompleteStreets(calculate_frequencies(tree)), "game_count", Max(games, 1))

\* load_decision_tree_data lines 481-496: completion, aggregation, game count
FinishTree(tree, games) ==
    Put(calculate_frequencies(CompleteStreets(tree)), "game_count", Max(games, 1))

\* mutant: every load refills and registers one and the same tree object
RegisterTree_shared(cache, tree_data, tree_data_id) ==
    [k \in DOMAIN cache \cup {tree_data_id} |-> tree_data]

\* mutant: the tree is registered before the error check
RegisterTree_unchecked(cache, tree_data, tree_data_id) ==
    Put(cache, tree_data_id, tree_data)

\* load_data lines 77-96 on the value load_decision_tree_data returned
RegisterTree(cache, tree_data, tree_data_id) ==
    IF Has(tree_data, "error") THEN cache ELSE Put(cache, tree_data_id, tree_data)

MainStyle(tree_data) == IF Has(tree_data, "error") THEN "none" ELSE "block"

\* load_data lines 50-75 and load_decision_tree_data lines 76-79, then
\* load_data lines 77-84: no game passes the filter
LoadEmpty ==
    /\ pc = "idle"
    /\ \E game_type \in GameTypes, exclude_hero \in BOOLEAN :
          inp' = [game_type |-> game_type, exclude_hero |-> exclude_hero]
    /\ decision_tree' = [error |-> "No games found"]
    /\ \E tree_data_id \in TreeIds \ DOMAIN tree_data_cache :
          tree_data_cache' = RegisterTree(tree_data_cache, decision_tree', tree_data_id)
    /\ store' = [data |-> decision_tree', style |-> MainStyle(decision_tree')]
    /\ pc' = "done"
    /\ UNCHANGED <<cur, budget, aux>>

\* the rows are exhausted: the tree is finished, returned and registered
Finish ==
    /\ pc \in {"games", "rows"}
    /\ decision_tree' = FinishTree(decision_tree, budget.games)
    /\ \E tree_data_id \in TreeIds \ DOMAIN tree_data_cache :
          tree_data_cache' = RegisterTree(tree_data_cache, decision_tree', tree_data_id)
    /\ store' = [data |-> decision_tree', style |-> MainStyle(decision_tree')]
    /\ cur' = IdleCur
    /\ pc' = "done"
    /\ UNCHANGED <<inp, budget, aux>>

Next ==
    \/ LoadEmpty
    \/ LoadBegin
    \/ NewGameRow
    \/ NewStreetRow
    \/ SameStreetRow
    \/ NewGroupRow
    \/ Finish

Spec == Init /\ [][Next]_vars

-----------------------------------------------------------------------------
(* load_decision_tree_data on a list of games, one game per step *)

\* a game is its game_players rows and its action rows [round, player, type]
\* in action_order

\* lines 264-389 over the rows of one street
RECURSIVE SequenceRows(_, _, _)
SequenceRows(st, players, rows) ==
    IF rows = <<>> THEN st
    ELSE SequenceRows(SequenceAction(st, ActionRow(players, Head(rows).player, Head(rows).type)),
                      players, Tail(rows))

\* lines 405-446 over the rows of one position
RECURSIVE ChainRows(_, _, _)
ChainRows(st, players, rows) ==
    IF rows = <<>> THEN st
    ELSE ChainRows(ChainAction(st, ActionRow(players, Head(rows).player, Head(rows).type)),
                   players, Tail(rows))

\* lines 392-446: groupby('position') over the rows of one street, from the
\* positions of rank k on
RECURSIVE ChainGroups(_, _, _, _, _)
ChainGroups(tree, players, street, rows, k) ==
    IF k > Cardinality(PositionNames) THEN tree
    ELSE LET grp == SelectSeq(rows, LAMBDA x : PositionRank(players[x.player].position) = k)
         IN IF grp = <<>> THEN ChainGroups(tree, players, street, rows, k + 1)
            ELSE LET position == players[grp[1].player].position
                     g == BeginPositionGroup(tree, street, position)
                     st == ChainRows([IdleSeq EXCEPT !.tree = g.tree,
                                                     !.current_node = g.current_node,
                                                     !.current_position = position],
                                     players, grp)
                 IN ChainGroups(st.tree, players, street, rows, k + 1)

\* lines 209-446: one street of one game
process_street(tree, players, r, rows, game_type) ==
    IF r \notin DOMAIN round_map THEN tree
    ELSE IF game_type = "heads_up"
    THEN IF HeadsUpSkipped(players) THEN tree
         ELSE SequenceRows(BeginHeadsUpStreet(tree, players, round_map[r]), players, rows).tree
    ELSE ChainGroups(tree, players, round_map[r], rows, 1)

\* line 208: groupby('action_round') from round r on
RECURSIVE ProcessRounds(_, _, _, _)
ProcessRounds(tree, game, game_type, r) ==
    IF r > Len(round_map) THEN tree
    ELSE LET rows == SelectSeq(game.rows, LAMBDA x : x.round = r)
         IN ProcessRounds(IF rows = <<>> THEN tree
                          ELSE process_street(tree, game.players, r, rows, game_type),
                          game, game_type, r + 1)

\* lines 199-446: one iteration of the loop over the games
process_game(tree, game, game_type) == ProcessRounds(tree, game, game_type, 0)

\* lines 189-446: the loop over the games
RECURSIVE ProcessGames(_, _, _)
ProcessGames(tree, games, game_type) ==
    IF games = <<>> THEN tree
    ELSE ProcessGames(process_game(tree, Head(games), game_type), Tail(games), game_type)

\* load_decision_tree_data on the games: lines 170-496
BuildTree(games, game_type, exclude_hero) ==
    FinishTree(ProcessGames(InitialTree(exclude_hero), games, game_type), Len(games))

\* the games of one load
MaxMergeHands == 2

\* the players who act in the games: both players of a two-player game, the
\* two players without a position of a four-player game
Actors(players) == IF Len(players) = 2 THEN <<1, 2>> ELSE <<3, 4>>

\* preflop rows of a game: an opening action, alone or with an answer
OpeningRows(players) ==
    LET first == {[round |-> 1, player |-> Actors(players)[1], type |-> t] :
                     t \in {"fold", "small_raise_preflop", "all_in_preflop"}}
        second == {[round |-> 1, player |-> Actors(players)[2], type |-> t] :
                     t \in {"call", "fold", "all_in_preflop"}}
    IN {<<a>> : a \in first} \cup {<<a, b>> : a \in first, b \in second}

MergeGames(game_type) ==
    UNION {{[players |-> players, rows |-> rows] : rows \in OpeningRows(players)} :
              players \in {q \in GamePlayers(game_type) :
                              game_type = "heads_up" => ~HeadsUpSkipped(q)}}

InitMerge ==
    /\ pc = "merge"
    /\ \E game_type \in GameTypes :
          /\ inp = [game_type |-> game_type, exclude_hero |-> TRUE]
          /\ \E n \in 1..MaxMergeHands : aux \in [1..n -> MergeGames(game_type)]
    /\ decision_tree = InitialTree(TRUE)
    /\ cur = IdleCur
    /\ budget = [games |-> 0, actions |-> 0]
    /\ store = [data |-> None, style |-> "none"]
    /\ tree_data_cache = EmptyDict

\* the next game of the list is folded into the tree
MergeHand ==
    /\ pc = "merge"
    /\ budget.games < Len(aux)
    /\ decision_tree' = process_game(decision_tree, aux[budget.games + 1], inp.game_type)
    /\ budget' = [budget EXCEPT !.games = @ + 1]
    /\ UNCHANGED <<pc, inp, cur, store, tree_data_cache, aux>>

\* the list is exhausted: completion, aggregation, game count
MergeFinish ==
    /\ pc = "merge"
    /\ budget.games = Len(aux)
    /\ decision_tree' = FinishTree(decision_tree, Len(aux))
    /\ pc' = "merged"
    /\ UNCHANGED <<inp, cur, budget, store, tree_data_cache, aux>>

NextMerge == MergeHand \/ MergeFinish

SpecMerge == InitMerge /\ [][NextMerge]_vars

-----------------------------------------------------------------------------
(* Heads-up sequencing of the action rows of street groups, one row per    *)
(* step, with the row and the sequencer's variables before it kept in aux  *)

\* the action rows of one load
MaxStreetRows == 3

\* the two-player games: the hero on the button or in the big blind
StreetPlayers ==
    {PlayersOf(<<"BTN/SB", "BB">>, 1, <<"AKs", "NoneNone">>),
     PlayersOf(<<"BTN/SB", "BB">>, 2, <<"none", "AKs">>)}

\* buckets of the rows of a preflop (1) or flop (2) street; a malformed log
\* holds them in any order
StreetTypes(r) ==
    IF r = 1
    THEN {"fold", "call", "small_raise_preflop", "consider_all_in_preflop",
          "all_in_preflop"}
    ELSE {"fold", "call", "check", "small_bet_postflop", "all_in_postflop",
          "all_in_call"}

InitStreet ==
    /\ pc = "street"
    /\ inp = [game_type |-> "heads_up", exclude_hero |-> TRUE]
    /\ decision_tree = InitialTree(TRUE)
    /\ cur = IdleCur
    /\ budget = [games |-> 0, actions |-> 0]
    /\ store = [data |-> None, style |-> "none"]
    /\ tree_data_cache = EmptyDict
    /\ aux = None

\* what aux keeps of a step: the row, the tree and the sequencer's variables
\* before the row, and whether a row of the street was skipped for its position
RowRecord(before, row, mismatched) ==
    [row |-> row, before |-> Locals(before), tree_before |-> before.tree,
     mismatched |-> mismatched \/ (row.position # before.current_position)]

\* lines 208-261 for the first row of a street group of a game, then the row
StreetFirstRow ==
    /\ pc = "street"
    /\ budget.actions < MaxStreetRows
    /\ \E players \in StreetPlayers, r \in {1, 2} :
         \E player \in 1..Len(players), t \in StreetTypes(r) :
            LET row == ActionRow(players, player, t)
                before == BeginHeadsUpStreet(decision_tree, players, round_map[r])
                after == SequenceAction(before, row)
            IN /\ decision_tree' = after.tree
               /\ cur' = [players |-> players, round |-> r, mode |-> "hu",
                          folded |-> {}, seq |-> Locals(after)]
               /\ aux' = RowRecord(before, row, FALSE)
    /\ budget' = [games |-> budget.games + 1, actions |-> budget.actions + 1]
    /\ UNCHANGED <<pc, inp, store, tree_data_cache>>

\* lines 264-389: the next row of the street group
StreetNextRow ==
    /\ pc = "street"
    /\ cur.mode = "hu"
    /\ budget.actions < MaxStreetRows
    /\ \E player \in 1..Len(cur.players), t \in StreetTypes(cur.round) :
         LET row == ActionRow(cur.players, player, t)
             before == [cur.seq EXCEPT !.tree = decision_tree]
             after == SequenceAction(before, row)
         IN /\ decision_tree' = after.tree
            /\ cur' = [cur EXCEPT !.seq = Locals(after)]
            /\ aux' = RowRecord(before, row, aux.mismatched)
    /\ budget' = [budget EXCEPT !.actions = @ + 1]
    /\ UNCHANGED <<pc, inp, store, tree_data_cache>>

NextStreet == StreetFirstRow \/ StreetNextRow

SpecStreet == InitStreet /\ [][NextStreet]_vars

-----------------------------------------------------------------------------
(* Loads of heads-up games in which the hero at BTN/SB raises small preflop *)
(* and BB calls                                                            *)

MaxScenarioHands == 3

\* what else the rows of such a game hold: a blind before, a flop action after
RowsBefore == {<<>>, <<[round |-> 0, player |-> 1, type |-> "small_blind"]>>}

RowsAfter ==
    {<<>>, <<[round |-> 2, player |-> 2, type |-> "check"]>>,
     <<[round |-> 2, player |-> 2, type |-> "all_in_postflop"]>>}

RaiseCallRows ==
    <<[round |-> 1, player |-> 1, type |-> "small_raise_preflop"],
      [round |-> 1, player |-> 2, type |-> "call"]>>

ScenarioGames ==
    {[players |-> PlayersOf(<<"BTN/SB", "BB">>, 1, deal),
      rows |-> before \o RaiseCallRows \o after] :
        deal \in {<<"AKs", "NoneNone">>, <<"none", "none">>},
        before \in RowsBefore, after \in RowsAfter}

InitScenario ==
    /\ pc = "merge"
    /\ inp = [game_type |-> "heads_up", exclude_hero |-> TRUE]
    /\ \E n \in 1..MaxScenarioHands : aux \in [1..n -> ScenarioGames]
    /\ decision_tree = InitialTree(TRUE)
    /\ cur = IdleCur
    /\ budget = [games |-> 0, actions |-> 0]
    /\ store = [data |-> None, style |-> "none"]
    /\ tree_data_cache = EmptyDict

SpecScenario == InitScenario /\ [][NextMerge]_vars

-----------------------------------------------------------------------------
(* process_xml_file, database_building.py lines 221-512, one <game> element *)
(* per step                                                                *)

\* the <game> elements of a file
MaxFileGames == 2

\* values of the type attribute of an <action>: codes of get_action_type, a
\* code outside allowed_types, and text that is no integer
XmlTypeAttrs == {"0", "1", "3", "99", ""}

\* int(action.get('type', '0')), line 418: defined on the integer texts only
IntOfAttr == [a \in {"0", "1", "3", "99"} |->
                 CASE a = "0" -> 0 [] a = "1" -> 1 [] a = "3" -> 3 [] OTHER -> 99]

\* mutant: the names of the two blinds are exchanged
get_action_type_swapped(type_code) ==
    CASE type_code = 0 -> "fold"
      [] type_code = 1 -> "big_blind"
      [] type_code = 2 -> "small_blind"
      [] type_code = 3 -> "call"
      [] type_code = 4 -> "check"
      [] type_code = 5 -> "bet"
      [] type_code = 7 -> "all_in"
      [] type_code = 15 -> "ante"
      [] type_code = 23 -> "raise"
      [] OTHER -> "unknown"

\* get_action_type, lines 121-134; "unknown" stands for f"unknown_{type_code}"
get_action_type(type_code) ==
    CASE type_code = 0 -> "fold"
      [] type_code = 1 -> "small_blind"
      [] type_code = 2 -> "big_blind"
      [] type_code = 3 -> "call"
      [] type_code = 4 -> "check"
      [] type_code = 5 -> "bet"
      [] type_code = 7 -> "all_in"
      [] type_code = 15 -> "ante"
      [] type_code = 23 -> "raise"
      [] OTHER -> "unknown"

\* simplify_action on the types of XmlTypeAttrs, lines 140-144 and 216-219:
\* "None" for a type outside allowed_types, the base action for the types
\* that are bucketed without context (bet, raise and all_in are not among
\* XmlTypeAttrs)
SimplifiedBaseAction(action_type) ==
    CASE action_type = 0 -> "fold"
      [] action_type = 3 -> "call"
      [] action_type = 4 -> "check"
      [] action_type = 15 -> "ante"
      [] OTHER -> "None"

\* lines 411-481: the rows actions_data gains from the <action> elements of a game
RECURSIVE XmlActionRows(_, _)
XmlActionRows(game_id, actions) ==
    IF actions = <<>> THEN <<>>
    ELSE LET action == Head(actions)
             action_type == IntOfAttr[action.type]
             simple == IF action.round >= 1 THEN SimplifiedBaseAction(action_type)
                       ELSE get_action_type(action_type)
             row == [game_id |-> game_id, action_round |-> action.round,
                     simple_action_type |-> simple]
         IN (IF simple = "None" THEN <<>> ELSE <<row>>)
            \o XmlActionRows(game_id, Tail(actions))

\* line 418 raises ValueError on some <action> of the game
RaisesValueError(game) ==
    \E i \in 1..Len(game.actions) : game.actions[i].type \notin DOMAIN IntOfAttr

\* the <action> elements read before line 418 raises
RECURSIVE ReadBeforeError(_)
ReadBeforeError(actions) ==
    IF actions = <<>> \/ Head(actions).type \notin DOMAIN IntOfAttr THEN <<>>
    ELSE <<Head(actions)>> \o ReadBeforeError(Tail(actions))

\* <game> elements: without gamecode, without <general>, without <players>,
\* or complete with one blind and one preflop action
XmlGames ==
    {[shape |-> sh, actions |-> <<>>] : sh \in {"no_gamecode", "no_general", "no_players"}}
    \cup {[shape |-> "ok",
           actions |-> <<[round |-> 0, type |-> "1"], [round |-> 1, type |-> t]>>] :
             t \in XmlTypeAttrs}

XmlFailure ==
    [games |-> <<>>, actions |-> <<>>, success |-> FALSE]

InitXml ==
    /\ pc = "xml"
    /\ \E n \in 1..MaxFileGames, parsed \in BOOLEAN :
          \E file \in [1..n -> XmlGames] :
              aux = [file |-> file, parsed |-> parsed, games_data |-> <<>>,
                     actions_data |-> <<>>, result |-> None]
    /\ inp = [game_type |-> "heads_up", exclude_hero |-> TRUE]
    /\ decision_tree = None
    /\ cur = IdleCur
    /\ budget = [games |-> 0, actions |-> 0]
    /\ store = [data |-> None, style |-> "none"]
    /\ tree_data_cache = EmptyDict

\* lines 231-241: the file does not parse
XmlParseError ==
    /\ pc = "xml"
    /\ ~aux.parsed
    /\ aux' = [aux EXCEPT !.result = [success |-> FALSE]]
    /\ pc' = "xml_done"
    /\ UNCHANGED <<inp, decision_tree, cur, budget, store, tree_data_cache>>

\* lines 249-490: the next <game> element; an exception leaves the loop for
\* the handler of lines 501-512
XmlGame ==
    /\ pc = "xml"
    /\ aux.parsed
    /\ budget.games < Len(aux.file)
    /\ LET game_id == budget.games + 1
           game == aux.file[game_id]
       IN IF game.shape # "ok"
          THEN /\ aux' = aux
               /\ pc' = pc
          ELSE IF RaisesValueError(game)
          THEN /\ aux' = [aux EXCEPT !.games_data = Append(@, game_id),
                                     !.actions_data =
                                         @ \o XmlActionRows(game_id, ReadBeforeError(game.actions)),
                                     !.result = XmlFailure]
               /\ pc' = "xml_done"
          ELSE /\ aux' = [aux EXCEPT !.games_data = Append(@, game_id),
                                     !.actions_data = @ \o XmlActionRows(game_id, game.actions)]
               /\ pc' = pc
    /\ budget' = [budget EXCEPT !.games = @ + 1]
    /\ UNCHANGED <<inp, decision_tree, cur, store, tree_data_cache>>

\* lines 492-499: every <game> element was read
XmlReturn ==
    /\ pc = "xml"
    /\ aux.parsed
    /\ budget.games = Len(aux.file)
    /\ aux' = [aux EXCEPT !.result = [games |-> aux.games_data,
                                      actions |-> aux.actions_data,
                                      success |-> TRUE]]
    /\ pc' = "xml_done"
    /\ UNCHANGED <<inp, decision_tree, cur, budget, store, tree_data_cache>>

NextXml == XmlParseError \/ XmlGame \/ XmlReturn

SpecXml == InitXml /\ [][NextXml]_vars

-----------------------------------------------------------------------------
(* simplify_action, database_building.py lines 136-219                     *)
(*                                                                         *)
(* Amounts are whole chips.  The code computes with Python floats; on      *)
(* whole numbers its quotients and products compare with the literals      *)
(* 0.33, 0.66, 2.2, 2.7, 3.2, 1.05 and 0.98 as the exact fractions do, so  *)
(* a comparison ratio <= p/q is num * q <= p * den.                        *)

\* line 140
allowed_types ==
    (0 :> "fold") @@ (3 :> "call") @@ (4 :> "check") @@ (5 :> "bet")
    @@ (7 :> "all_in") @@ (15 :> "ante") @@ (23 :> "raise")

\* 'x / d if d > 0 else 0' (lines 169, 184, 208) as a fraction
Ratio(num, den) == IF den > 0 THEN <<num, den>> ELSE <<0, 1>>

\* ratio <= p / q
AtMost(ratio, p, q) == ratio[1] * q <= p * ratio[2]

\* lines 150-154 and 204-205
CallAmount(action_details, round_contributions, current_round_max) ==
    Max(0, current_round_max - Get(round_contributions, action_details.player_id, 0))

\* mutant: an all-in counts as a call only up to the exact amount to call
AllInBucket_no_margin(action_details, round_no, round_contributions, current_round_max) ==
    IF action_details.action_sum
           <= CallAmount(action_details, round_contributions, current_round_max)
    THEN "all_in_call"
    ELSE IF round_no = 1 THEN "all_in_preflop" ELSE "all_in_postflop"

\* lines 147-163: action_sum <= call_amount * 1.05
AllInBucket(action_details, round_no, round_contributions, current_round_max) ==
    IF action_details.action_sum * 100
           <= CallAmount(action_details, round_contributions, current_round_max) * 105
    THEN "all_in_call"
    ELSE IF round_no = 1 THEN "all_in_preflop" ELSE "all_in_postflop"

\* mutant: a bet of round 1 is sized like a postflop bet
BetBucket_any_round(action_details, round_no, pot_before_action) ==
    LET ratio == Ratio(action_details.action_sum, pot_before_action)
    IN IF AtMost(ratio, 33, 100) THEN "small_bet_postflop"
       ELSE IF AtMost(ratio, 66, 100) THEN "mid_bet_postflop"
       ELSE "big_bet_postflop"

\* lines 165-179
BetBucket(action_details, round_no, pot_before_action) ==
    IF round_no > 1
    THEN LET ratio == Ratio(action_details.action_sum, pot_before_action)
         IN IF AtMost(ratio, 33, 100) THEN "small_bet_postflop"
            ELSE IF AtMost(ratio, 66, 100) THEN "mid_bet_postflop"
            ELSE "big_bet_postflop"
    ELSE "unusual_bet_preflop"

\* lines 187-191: player_stacks.get(player_id, inf) if player_stacks else inf,
\* and action_sum >= 0.98 * player_stack
is_all_in(action_details, player_stacks) ==
    /\ Has(player_stacks, action_details.player_id)
    /\ action_details.action_sum * 100 >= 98 * player_stacks[action_details.player_id]

\* mutant: the tiers exclude their upper limits
RaisePreflopBucket_strict(action_details, blinds, player_stacks) ==
    LET bb == Get(blinds, "big_blind", 1)
        ratio == Ratio(action_details.action_sum, bb)
    IN IF is_all_in(action_details, player_stacks) THEN "all_in_preflop"
       ELSE IF ~AtMost(<<22, 10>>, ratio[1], ratio[2]) THEN "small_raise_preflop"
       ELSE IF ~AtMost(<<27, 10>>, ratio[1], ratio[2]) THEN "mid_raise_preflop"
       ELSE IF ~AtMost(<<32, 10>>, ratio[1], ratio[2]) THEN "big_raise_preflop"
       ELSE "consider_all_in_preflop"

\* lines 182-202
RaisePreflopBucket(action_details, blinds, player_stacks) ==
    LET bb == Get(blinds, "big_blind", 1)
        ratio == Ratio(action_details.action_sum, bb)
    IN IF is_all_in(action_details, player_stacks) THEN "all_in_preflop"
       ELSE IF AtMost(ratio, 22, 10) THEN "small_raise_preflop"
       ELSE IF AtMost(ratio, 27, 10) THEN "mid_raise_preflop"
       ELSE IF AtMost(ratio, 32, 10) THEN "big_raise_preflop"
       ELSE "consider_all_in_preflop"

\* mutant: the ratio divides by zero instead of falling back to 0
RaisePostflopBucket_unguarded(action_details, pot_before_action, round_contributions, current_round_max) ==
    LET call_amount == CallAmount(action_details, round_contributions, current_round_max)
        effective_raise == action_details.action_sum - call_amount
        effective_pot == pot_before_action + call_amount
    IN IF effective_pot = 0 THEN "ZeroDivisionError"
       ELSE IF AtMost(<<effective_raise, effective_pot>>, 33, 100) THEN "small_raise_postflop"
       ELSE IF AtMost(<<effective_raise, effective_pot>>, 66, 100) THEN "mid_raise_postflop"
       ELSE "big_raise_postflop"

\* lines 203-215
RaisePostflopBucket(action_details, pot_before_action, round_contributions, current_round_max) ==
    LET call_amount == CallAmount(action_details, round_contributions, current_round_max)
        effective_raise == action_details.action_sum - call_amount
        effective_pot == pot_before_action + call_amount
        ratio == Ratio(effective_raise, effective_pot)
    IN IF AtMost(ratio, 33, 100) THEN "small_raise_postflop"
       ELSE IF AtMost(ratio, 66, 100) THEN "mid_raise_postflop"
       ELSE "big_raise_postflop"

\* mutant: a type outside allowed_types passes through under the name
\* get_action_type gives it
simplify_action_passes_all(action_details, round_no, blinds, pot_before_action, round_contributions, current_round_max, player_stacks) ==
    LET orig_type == action_details.action_type
        base_action == IF orig_type \in DOMAIN allowed_types
                       THEN allowed_types[orig_type] ELSE get_action_type(orig_type)
    IN Put(action_details, "simple_action_type",
           CASE base_action = "all_in" ->
                    AllInBucket(action_details, round_no, round_contributions,
                                current_round_max)
             [] base_action = "bet" ->
                    BetBucket(action_details, round_no, pot_before_action)
             [] base_action = "raise" ->
                    IF round_no = 1
                    THEN RaisePreflopBucket(action_details, blinds, player_stacks)
                    ELSE RaisePostflopBucket(action_details, pot_before_action,
                                             round_contributions, current_round_max)
             [] OTHER -> base_action)

\* mutant: a call within the margin of the amount to call becomes all_in_call
simplify_action_call_margin(action_details, round_no, blinds, pot_before_action, round_contributions, current_round_max, player_stacks) ==
    LET orig_type == action_details.action_type
    IN IF orig_type \notin DOMAIN allowed_types THEN None
       ELSE LET base_action == allowed_types[orig_type]
            IN Put(action_details, "simple_action_type",
                   CASE base_action = "all_in" ->
                            AllInBucket(action_details, round_no, round_contributions,
                                        current_round_max)
                     [] base_action = "call" ->
                            IF action_details.action_sum * 100
                                   <= CallAmount(action_details, round_contributions,
                                                 current_round_max) * 105
                            THEN "all_in_call" ELSE "call"
                     [] base_action = "bet" ->
                            BetBucket(action_details, round_no, pot_before_action)
                     [] base_action = "raise" ->
                            IF round_no = 1
                            THEN RaisePreflopBucket(action_details, blinds, player_stacks)
                            ELSE RaisePostflopBucket(action_details, pot_before_action,
                                                     round_contributions, current_round_max)
                     [] OTHER -> base_action)

\* lines 136-219: None, or the action with its simple_action_type
simplify_action(action_details, round_no, blinds, pot_before_action, round_contributions, current_round_max, player_stacks) ==
    LET orig_type == action_details.action_type
    IN IF orig_type \notin DOMAIN allowed_types THEN None
       ELSE LET base_action == allowed_types[orig_type]
            IN Put(action_details, "simple_action_type",
                   CASE base_action = "all_in" ->
                            AllInBucket(action_details, round_no, round_contributions,
                                        current_round_max)
                     [] base_action = "bet" ->
                            BetBucket(action_details, round_no, pot_before_action)
                     [] base_action = "raise" ->
                            IF round_no = 1
                            THEN RaisePreflopBucket(action_details, blinds, player_stacks)
                            ELSE RaisePostflopBucket(action_details, pot_before_action,
                                                     round_contributions, current_round_max)
                     [] OTHER -> base_action)

-----------------------------------------------------------------------------
(* simplify_action applied once to arguments drawn from sets that hold the *)
(* limits of every tier                                                    *)

\* type codes: those of get_action_type and one outside them
SimplifyTypes == {0, 1, 2, 3, 4, 5, 7, 15, 23, 99}

\* action sums on both sides of 2.2, 2.7 and 3.2 big blinds of 10, of 0.33 and
\* 0.66 of a pot of 100, of 1.05 times a call of 20 and of 0.98 of a stack of 50
SimplifySums == {0, 21, 22, 23, 27, 28, 32, 33, 34, 49, 66, 67}

\* the arguments of one classification: an action of player p1 in round 0
\* (blinds and antes) or in a betting round, a big blind of 0 or 10, a pot of
\* 0, 99 or 100, the player's contribution to the round missing, 0 or 1, a
\* round maximum of 0, 1 or 20, no stacks or a stack of 50 or 1000
InitSimplify ==
    /\ pc = "simplify"
    /\ \E action_type \in SimplifyTypes, action_sum \in SimplifySums,
          round_no \in {0, 1, 2, 3},
          blinds \in {[big_blind |-> 0], [big_blind |-> 10]},
          pot_before_action \in {0, 99, 100},
          round_contributions \in {EmptyDict, [p1 |-> 0], [p1 |-> 1]},
          current_round_max \in {0, 1, 20},
          player_stacks \in {None, [p1 |-> 50], [p1 |-> 1000]} :
          aux = [action_details |-> [player_id |-> "p1", action_type |-> action_type,
                                     action_sum |-> action_sum, action_round |-> round_no],
                 round_no |-> round_no,
                 blinds |-> blinds,
                 pot_before_action |-> pot_before_action,
                 round_contributions |-> round_contributions,
                 current_round_max |-> current_round_max,
                 player_stacks |-> player_stacks,
                 result |-> None]
    /\ inp = [game_type |-> "heads_up", exclude_hero |-> TRUE]
    /\ decision_tree = None
    /\ cur = IdleCur
    /\ budget = [games |-> 0, actions |-> 0]
    /\ store = [data |-> None, style |-> "none"]
    /\ tree_data_cache = EmptyDict

\* process_xml_file lines 440-450: in a betting round the action goes through
\* simplify_action; aux.result is what it returns
ApplySimplify ==
    /\ pc = "simplify"
    /\ aux.round_no >= 1
    /\ aux' = [aux EXCEPT !.result =
                   simplify_action(aux.action_details, aux.round_no, aux.blinds,
                                   aux.pot_before_action, aux.round_contributions,
                                   aux.current_round_max, aux.player_stacks)]
    /\ pc' = "simplified"
    /\ UNCHANGED <<inp, decision_tree, cur, budget, store, tree_data_cache>>

\* process_xml_file lines 436 and 469-481: in round 0 the action is recorded
\* under the name get_action_type gives its type
RecordRoundZero ==
    /\ pc = "simplify"
    /\ aux.round_no = 0
    /\ aux' = [aux EXCEPT !.result =
                   Put(aux.action_details, "simple_action_type",
                       get_action_type(aux.action_details.action_type))]
    /\ pc' = "recorded"
    /\ UNCHANGED <<inp, decision_tree, cur, budget, store, tree_data_cache>>

NextSimplify == ApplySimplify \/ RecordRoundZero

SpecSimplify == InitSimplify /\ [][NextSimplify]_vars

-----------------------------------------------------------------------------
(* process_xml_file lines 396-489: the <action> elements of the rounds of  *)
(* one two-player game, one element per step                               *)

\* the <action> elements of the game
MaxXmlActions == 3

\* chips attribute of the two players of the game: p1 is the hero and the
\* dealer (BTN/SB by lines 318-345), p2 posts the big blind (BB)
XmlChips == [p1 |-> 60, p2 |-> 1000]

\* <bigblind> of the game
XmlBigBlind == [big_blind |-> 10]

\* type and sum attributes of an <action>: a blind, a call, a code outside
\* get_action_type's table, raises of several sizes
XmlActionChoices ==
    {[type |-> 1, sum |-> 10], [type |-> 3, sum |-> 50], [type |-> 99, sum |-> 50]}
    \cup {[type |-> 23, sum |-> x] : x \in {33, 50}}

\* lines 396-411 for the first <round>, which holds the blinds (no="0")
InitRounds ==
    /\ pc = "xml_rounds"
    /\ aux = [round_no |-> 0,
              pot_size |-> 0,
              action_order |-> 0,
              player_stacks |-> XmlChips,
              round_contributions |-> None,
              current_round_max |-> 0,
              actions_data |-> <<>>,
              elements |-> <<>>]
    /\ inp = [game_type |-> "heads_up", exclude_hero |-> TRUE]
    /\ decision_tree = None
    /\ cur = IdleCur
    /\ budget = [games |-> 0, actions |-> 0]
    /\ store = [data |-> None, style |-> "none"]
    /\ tree_data_cache = EmptyDict

\* mutant: the contributions of the earlier rounds are carried into the round
begin_round_cumulative(st, round_no) ==
    [st EXCEPT !.round_no = round_no,
               !.round_contributions = IF @ = None THEN [x \in {"p1", "p2"} |-> 0] ELSE @]

\* lines 406-411: round_no of the <round>, and for a betting round the reset
\* of round_contributions and current_round_max
begin_round(st, round_no) ==
    IF round_no >= 1
    THEN [st EXCEPT !.round_no = round_no,
                    !.round_contributions = [x \in {"p1", "p2"} |-> 0],
                    !.current_round_max = 0]
    ELSE [st EXCEPT !.round_no = round_no]

\* lines 405-411: the next <round> element
XmlNextRound ==
    /\ pc = "xml_rounds"
    /\ aux.round_no + 1 \in Rounds
    /\ aux' = begin_round(aux, aux.round_no + 1)
    /\ UNCHANGED <<pc, inp, decision_tree, cur, budget, store, tree_data_cache>>

\* lines 454-464 and 471-481: the row actions_data gains
XmlRow(action_details, action_order, simple_action_type, pot_before_action) ==
    [player_name |-> action_details.player_id,
     action_round |-> action_details.action_round,
     action_type |-> action_details.action_type,
     simple_action_type |-> simple_action_type,
     action_sum |-> action_details.action_sum,
     action_order |-> action_order,
     pot_before_action |-> pot_before_action]

\* lines 413-485 for one <action> element of the current round
process_action(st, player_name, action_type, action_sum) ==
    LET action_order == st.action_order + 1
        player_stacks == Put(st.player_stacks, player_name,
                             Max(0, Get(st.player_stacks, player_name, 0) - action_sum))
        action_details == [player_id |-> player_name, action_type |-> action_type,
                           action_sum |-> action_sum, action_round |-> st.round_no]
        current_pot == st.pot_size
        moved == [st EXCEPT !.action_order = action_order,
                            !.player_stacks = player_stacks,
                            !.pot_size = @ + action_sum]
    IN IF st.round_no >= 1
       THEN LET simple_action ==
                    simplify_action(action_details, st.round_no, XmlBigBlind, current_pot,
                                    st.round_contributions, st.current_round_max,
                                    player_stacks)
                contributed == Get(st.round_contributions, player_name, 0) + action_sum
            IN [moved EXCEPT
                  !.actions_data =
                      IF simple_action = None THEN @
                      ELSE Append(@, XmlRow(action_details, action_order,
                                            simple_action.simple_action_type, current_pot)),
                  !.round_contributions = Put(@, player_name, contributed),
                  !.current_round_max = Max(@, contributed)]
       ELSE [moved EXCEPT
               !.actions_data =
                   Append(@, XmlRow(action_details, action_order,
                                    get_action_type(action_type), current_pot))]

\* the next <action> element of the round is read
XmlAction ==
    /\ pc = "xml_rounds"
    /\ budget.actions < MaxXmlActions
    /\ \E player_name \in {"p1", "p2"}, a \in XmlActionChoices :
          aux' = [process_action(aux, player_name, a.type, a.sum) EXCEPT
                     !.elements = Append(@, [round |-> aux.round_no, player |-> player_name,
                                             type |-> a.type, sum |-> a.sum])]
    /\ budget' = [budget EXCEPT !.actions = @ + 1]
    /\ UNCHANGED <<pc, inp, decision_tree, cur, store, tree_data_cache>>

NextRounds == XmlNextRound \/ XmlAction

SpecRounds == InitRounds /\ [][NextRounds]_vars

-----------------------------------------------------------------------------
(* calculate_frequencies and the listing of children on arbitrary trees *)

\* the largest action count of a node of an input tree
MaxCount == 1

\* what a node may hold of 'actions' and 'hero_actions': neither, both empty,
\* actions without hero tracking, a hero count of 0 or above the action
\* count, a hero count for one of two buckets
NodeCounts ==
    {EmptyDict, [actions |-> EmptyDict, hero_actions |-> EmptyDict]}
    \cup {[actions |-> [call |-> n]] : n \in 1..MaxCount}
    \cup {[actions |-> [call |-> n], hero_actions |-> [call |-> h]] :
             n \in 0..MaxCount, h \in {0, MaxCount + 1}}
    \cup {[actions |-> [call |-> MaxCount, fold |-> 1], hero_actions |-> [fold |-> 1]]}

Merged(d, e) == [k \in DOMAIN d \cup DOMAIN e |-> IF k \in DOMAIN e THEN e[k] ELSE d[k]]

\* nodes named name with the given children and counts, observed or marked synthetic
NodesNamed(name, children, child_order, counts) ==
    {Merged(Merged([name |-> name, children |-> children, child_order |-> child_order], c), f) :
        c \in counts, f \in {EmptyDict, [is_synthetic |-> TRUE]}}

FreqLeaves(name) == NodesNamed(name, EmptyDict, <<>>, NodeCounts)

\* a node with one child below it
FreqInner(name) ==
    UNION {NodesNamed(name, [fold |-> leaf], <<"fold">>, {[actions |-> [call |-> MaxCount]]}) :
              leaf \in NodesNamed("fold", EmptyDict, <<>>, {[actions |-> [fold |-> 1]]})}

\* the trees handed to calculate_frequencies: a root with a child call, bare
\* or with a child of its own, and with or without a second child fold
FreqTrees ==
    UNION {{Merged([name |-> "root", children |-> [call |-> first], child_order |-> <<"call">>], c),
            Merged([name |-> "root", children |-> [call |-> first, fold |-> second],
                    child_order |-> <<"call", "fold">>], c)} :
              first \in FreqLeaves("call") \cup FreqInner("call"),
              second \in FreqLeaves("fold"), c \in NodeCounts}

InitFreq ==
    /\ pc = "freq"
    /\ decision_tree \in FreqTrees
    /\ inp = [game_type |-> "heads_up", exclude_hero |-> TRUE]
    /\ cur = IdleCur
    /\ budget = [games |-> 0, actions |-> 0]
    /\ store = [data |-> None, style |-> "none"]
    /\ tree_data_cache = EmptyDict
    /\ aux = None

\* calculate_frequencies(decision_tree); aux keeps the tree it was given
Aggregate ==
    /\ pc = "freq"
    /\ decision_tree' = calculate_frequencies(decision_tree)
    /\ aux' = decision_tree
    /\ pc' = "freq_done"
    /\ UNCHANGED <<inp, cur, budget, store, tree_data_cache>>

NextFreq == Aggregate

SpecFreq == InitFreq /\ [][NextFreq]_vars

-----------------------------------------------------------------------------
(* Properties of the loaded tree *)

IsTree(t) == Has(t, "children")

Returned == pc = "done" /\ IsTree(decision_tree)

NodesOf(tree) == {GetAt(tree, p) : p \in PathsOf(tree)}

IsSynthetic(node) == Get(node, "is_synthetic", FALSE)

IsFacing(node) == Get(node, "facing_all_in", FALSE)

Occurrences(seq, x) == Cardinality({i \in 1..Len(seq) : seq[i] = x})

Aggregated == pc = "freq_done"

ObservedChildren(n) == {c \in DOMAIN n.children : ~IsSynthetic(n.children[c])}

\* C1: after calculate_frequencies, every node's total_count is the sum of
\* its action counts plus the total_count of its children that are not
\* synthetic, and its non_hero_count is its own non-hero action count plus
\* the non_hero_count of those children: synthetic children add nothing.
C1_TotalsSkipSynthetic ==
    Aggregated =>
        \A n \in NodesOf(decision_tree) :
            LET kept == ObservedChildren(n)
            IN /\ n.total_count =
                     SumValues(Get(n, "actions", EmptyDict))
                     + SumOver([c \in kept |-> n.children[c].total_count], kept)
               /\ n.non_hero_count =
                     Get(n, "non_hero_action_count", 0)
                     + SumOver([c \in kept |-> n.children[c].non_hero_count], kept)

\* a node with counts of its own, an observed child and a synthetic child
\* that both hold counts
C1_Witness ==
    /\ Aggregated
    /\ \E a \in DOMAIN decision_tree.children, b \in DOMAIN decision_tree.children :
          /\ IsSynthetic(decision_tree.children[a])
          /\ decision_tree.children[a].total_count > 0
          /\ ~IsSynthetic(decision_tree.children[b])
          /\ decision_tree.children[b].total_count > 0
          /\ decision_tree.children[b].total_count < decision_tree.total_count
          /\ decision_tree.total_count =
                SumValues(decision_tree.actions) + decision_tree.children[b].total_count

\* C2: after aggregation every node has non_hero_count <= total_count and
\* non_hero_action_count <= total_action_count, whatever the action counts
\* and hero counts.
C2_NonHeroAtMostTotal ==
    Aggregated =>
        \A n \in NodesOf(decision_tree) :
            /\ n.non_hero_count <= n.total_count
            /\ Has(n, "total_action_count") =>
                  n.non_hero_action_count <= n.total_action_count

\* a node whose hero count exceeds its action count above a node with
\* actions and no hero tracking
C2_Witness ==
    /\ Aggregated
    /\ Has(decision_tree, "hero_actions") /\ Has(decision_tree, "actions")
    /\ \E k \in DOMAIN decision_tree.actions :
          /\ k \in DOMAIN decision_tree.hero_actions
          /\ decision_tree.hero_actions[k] > decision_tree.actions[k]
          /\ decision_tree.actions[k] > 0
    /\ decision_tree.non_hero_action_count = 0
    /\ \E c \in DOMAIN decision_tree.children :
          /\ Has(decision_tree.children[c], "actions")
          /\ ~Has(decision_tree.children[c], "hero_actions")
          /\ decision_tree.children[c].non_hero_action_count > 0

\* the tree without the insertion order of its children
RECURSIVE Counts(_)
Counts(node) ==
    [k \in DOMAIN node \ {"child_order"} |->
        IF k = "children"
        THEN [c \in DOMAIN node.children |-> Counts(node.children[c])]
        ELSE node[k]]

Reordered(games, order) == [i \in 1..Len(games) |-> games[order[i]]]

C4_RaiseCallScenario ==
    pc = "merged" =>
        LET btn == decision_tree.children["preflop"].children["BTN/SB"]
            bb == btn.children["small_raise_preflop"].children["BB"]
        IN /\ btn.actions = [small_raise_preflop |-> Len(aux)]
           /\ btn.hero_actions = [small_raise_preflop |-> Len(aux)]
           /\ btn.non_hero_action_count = 0
           /\ bb.actions = [call |-> Len(aux)]
           /\ bb.hero_actions = [call |-> 0]
           /\ bb.non_hero_action_count = Len(aux)

\* three such hands were sequenced and aggregated
C4_Witness ==
    /\ pc = "merged"
    /\ Len(aux) = 3
    /\ \A i \in 1..3 : SubSeq(aux[i].rows, Len(aux[i].rows) - 1, Len(aux[i].rows)) = RaiseCallRows
    /\ decision_tree.children["preflop"].children["BTN/SB"].actions
          = [small_raise_preflop |-> 3]
    /\ decision_tree.children["preflop"].children["BTN/SB"]
          .children["small_raise_preflop"].children["BB"].non_hero_action_count = 3
    /\ decision_tree.game_count = 3

\* C5: after the completion pass every node flagged facing_all_in has exactly
\* one child named fold and exactly one child named call, observed or synthetic.
C5_FacingAllInCompleted ==
    Returned =>
        \A n \in NodesOf(decision_tree) :
            IsFacing(n) =>
                /\ Has(n.children, "fold") /\ Has(n.children, "call")
                /\ Occurrences(n.child_order, "fold") = 1
                /\ Occurrences(n.child_order, "call") = 1

\* a facing_all_in node whose call was observed and whose fold is synthetic
C5_Witness ==
    /\ Returned
    /\ \E n \in NodesOf(decision_tree) :
          /\ IsFacing(n)
          /\ Has(n.children, "call") /\ ~IsSynthetic(n.children["call"])
          /\ Has(n.children, "fold") /\ IsSynthetic(n.children["fold"])
          /\ n.actions = [call |-> 1]

\* C6: a node named fold never has children, during sequencing and in the
\* returned tree, in heads-up and in non-heads-up sequencing.
C6_FoldHasNoChildren ==
    IsTree(decision_tree) =>
        \A n \in NodesOf(decision_tree) : n.name = "fold" => DOMAIN n.children = {}

\* the keys of a path that names the nodes of q
Keys(q) == [i \in 1..Len(q) |-> PlainKey(q[i])]

\* the ids the graph gives its nodes: "root-preflop-BB" for the node at preflop/BB
IdKeys(q) == [i \in 1..Len(q) |-> <<"root">> \o SubSeq(q, 1, i)]

\* keys whose last component names the node, after a component that names nothing
OddKeys(q) == [i \in 1..Len(q) |-> <<"XYZ", q[i]>>]

RootKey == PlainKey("root")

\* paths to look up in a tree: the paths of its nodes, with and without the
\* leading 'root', with composite keys, and paths that leave the tree
Probes(tree) ==
    UNION {{Keys(q), <<RootKey>> \o Keys(q), <<RootKey, RootKey>> \o Keys(q),
            <<RootKey>> \o Keys(q) \o <<PlainKey("XYZ")>>,
            <<RootKey>> \o Keys(q) \o <<PlainKey("XYZ"), PlainKey("preflop")>>,
            <<RootKey>> \o Keys(q) \o <<RootKey>>,
            <<RootKey>> \o IdKeys(q), <<RootKey>> \o OddKeys(q)} : q \in PathsOf(tree)}

\* the keys that remain once a leading 'root' is consumed
Remaining(path) ==
    IF path # <<>> /\ path[1] = RootKey THEN Tail(path) ELSE path

\* the node reached by following names through the children mappings
RECURSIVE Follow(_, _)
Follow(node, names) ==
    IF names = <<>> THEN node
    ELSE IF Head(names) \in DOMAIN node.children
         THEN Follow(node.children[Head(names)], Tail(names))
         ELSE None

\* C7 as stated: get_node_by_path returns the node reached by following each
\* remaining key, as it is, through the children mappings, and None as soon
\* as a key is not a child of the current node.
C7_FollowsEachKey ==
    Returned =>
        \A path \in Probes(decision_tree) :
            LET rest == Remaining(path)
            IN get_node_by_path(decision_tree, path) =
                   IF \A i \in 1..Len(rest) : Len(rest[i]) = 1
                   THEN Follow(decision_tree, [i \in 1..Len(rest) |-> rest[i][1]])
                   ELSE None

\* C7 amended: on a tree that is not empty, get_node_by_path returns the node
\* reached by following, for each remaining key, the part of the key after
\* its last '-' through the children mappings, and None as soon as that part
\* is not a child of the current node; an empty tree is returned as it is.
C7_FollowsLastComponents ==
    Returned =>
        \A path \in Probes(decision_tree) :
            LET rest == Remaining(path)
            IN /\ get_node_by_path(decision_tree, path) =
                     Follow(decision_tree, [i \in 1..Len(rest) |-> rest[i][Len(rest[i])]])
               /\ get_node_by_path(EmptyDict, path) = EmptyDict
               /\ get_node_by_path(None, path) = None

\* ['root','preflop','BTN/SB'] resolves to the observed BTN/SB node, the id
\* keys of the graph resolve to the same node, ['root','preflop','XYZ'] is not found
C7_Witness ==
    /\ Returned
    /\ Has(decision_tree.children["preflop"].children, "BTN/SB")
    /\ LET node == decision_tree.children["preflop"].children["BTN/SB"]
       IN /\ node.total_count > 0
          /\ get_node_by_path(decision_tree, Keys(<<"root", "preflop", "BTN/SB">>)) = node
          /\ get_node_by_path(decision_tree,
                 <<RootKey, <<"root", "preflop">>, <<"root", "preflop", "BTN/SB">>>>) = node
          /\ get_node_by_path(decision_tree, Keys(<<"root", "preflop", "XYZ">>)) = None

\* the count a listing orders by
ListedCount(child, exclude_hero) ==
    IF exclude_hero THEN Get(child, "non_hero_count", 0) ELSE Get(child, "total_count", 0)

\* C8: the listing of a node's children holds every child once, the children
\* that are not synthetic ordered by count descending (non_hero_count when the
\* hero is excluded, total_count otherwise), and every synthetic child comes
\* after every child that is not synthetic, whatever the counts.
C8_ChildrenListedByCount ==
    Aggregated =>
        \A n \in NodesOf(decision_tree), exclude_hero \in BOOLEAN :
            LET listed == sorted_children(n, exclude_hero)
            IN /\ Len(listed) = Cardinality(DOMAIN n.children)
               /\ {listed[i] : i \in 1..Len(listed)} = DOMAIN n.children
               /\ \A i, j \in 1..Len(listed) :
                     i < j =>
                        LET a == n.children[listed[i]]
                            b == n.children[listed[j]]
                        IN /\ ~(IsSynthetic(a) /\ ~IsSynthetic(b))
                           /\ (~IsSynthetic(a) /\ ~IsSynthetic(b)) =>
                                 ListedCount(a, exclude_hero) >= ListedCount(b, exclude_hero)

\* a synthetic child with a positive count is listed after an observed child
\* with count 0 that was inserted after it
C8_Witness ==
    /\ Aggregated
    /\ \E n \in NodesOf(decision_tree) :
          /\ n.child_order = <<"call", "fold">>
          /\ IsSynthetic(n.children["call"]) /\ ~IsSynthetic(n.children["fold"])
          /\ n.children["call"].total_count > 0
          /\ n.children["fold"].total_count = 0
          /\ sorted_children(n, FALSE) = <<"fold", "call">>
          /\ sorted_children(n, TRUE) = <<"fold", "call">>

\* C9: when no game passes the filter, the load returns a value that carries
\* an error message and no children, the value is not registered in the tree
\* cache and the main content stays hidden; a returned tree never carries the
\* error marker, is registered and shown.
C9_EmptyFilterIsAnError ==
    pc = "done" =>
        /\ Has(decision_tree, "error") \/ Has(decision_tree, "children")
        /\ Has(decision_tree, "error") =>
              /\ ~Has(decision_tree, "children")
              /\ \A i \in DOMAIN tree_data_cache : tree_data_cache[i] # decision_tree
              /\ store.style = "none"
        /\ Has(decision_tree, "children") =>
              /\ ~Has(decision_tree, "error")
              /\ \E i \in DOMAIN tree_data_cache : tree_data_cache[i] = decision_tree
              /\ store.style = "block"

\* the load found no game: the error value is what the store holds
C9_Witness ==
    /\ pc = "done"
    /\ Has(decision_tree, "error")
    /\ store.data = decision_tree
    /\ tree_data_cache = EmptyDict

\* the games of the file that are complete and whose actions all parse
SoundGames(file) ==
    SelectSeq([i \in 1..Len(file) |-> i],
              LAMBDA i : file[i].shape = "ok" /\ ~RaisesValueError(file[i]))

\* C10: a game that fails while it is classified is skipped and every other
\* game is still processed: process_xml_file returns the other games of the
\* file.
C10_OtherGamesReturned ==
    (pc = "xml_done" /\ aux.parsed) =>
        /\ Has(aux.result, "games")
        /\ aux.result.games = SoundGames(aux.file)

-----------------------------------------------------------------------------
(* Properties of the classification of actions *)

\* simplify_action was applied to the arguments of aux
Simplified == pc = "simplified"

\* the bucket of the classified action, "None" when there is none
Bucket ==
    IF aux.result = None THEN "None" ELSE aux.result.simple_action_type

\* the amount the player still has to put in to match the round's maximum
ToCall ==
    Max(0, aux.current_round_max - Get(aux.round_contributions, "p1", 0))

\* the all-in test of a preflop raise on the stack handed to simplify_action
RaiseIsAllIn ==
    /\ aux.player_stacks # None
    /\ aux.action_details.action_sum * 100 >= 98 * aux.player_stacks.p1

\* the action elements of the game read so far that are of type t
ElementsOfType(t) == {n \in 1..Len(aux.elements) : aux.elements[n].type = t}

\* the row actions_data keeps for the n-th action element, if any
RowsOf(n) == {i \in 1..Len(aux.actions_data) : aux.actions_data[i].action_order = n}

\* the game the database holds after the import: p1 at BTN/SB, p2 at BB, and
\* the rows of actions_data
ImportedGame ==
    [players |-> PlayersOf(<<"BTN/SB", "BB">>, 1, <<"AKs", "NoneNone">>),
     rows |-> [i \in 1..Len(aux.actions_data) |->
                  [round |-> aux.actions_data[i].action_round,
                   player |-> IF aux.actions_data[i].player_name = "p1" THEN 1 ELSE 2,
                   type |-> aux.actions_data[i].simple_action_type]]]

\* every node name and every key of an actions dict of the tree
NamesIn(tree) ==
    UNION {{n.name} \cup (IF Has(n, "actions") THEN DOMAIN n.actions ELSE {}) :
              n \in NodesOf(tree)}

\* C12: an action whose type code is outside the known set never reaches the
\* tree: simplify_action returns no result for it, in a betting round no row
\* of actions_data is kept for it, and the tree load_decision_tree_data builds
\* from the imported rows holds no node name and no action-count key that
\* derives from the unknown code.
C12_UnknownCodeNeverInTree ==
    pc = "xml_rounds" =>
        /\ \A player_name \in {"p1", "p2"} :
              simplify_action([player_id |-> player_name, action_type |-> 99,
                               action_sum |-> 50, action_round |-> aux.round_no],
                              aux.round_no, XmlBigBlind, aux.pot_size,
                              aux.round_contributions, aux.current_round_max,
                              aux.player_stacks) = None
        /\ \A n \in ElementsOfType(99) :
              aux.elements[n].round >= 1 => RowsOf(n) = {}
        /\ \A game_type \in GameTypes :
              "unknown" \notin NamesIn(BuildTree(<<ImportedGame>>, game_type, TRUE))

C12_Witness ==
    /\ pc = "xml_rounds"
    /\ \E n \in ElementsOfType(99) : aux.elements[n].round = 0
    /\ \E n \in ElementsOfType(99) : aux.elements[n].round = 1
    /\ \E i \in 1..Len(aux.actions_data) :
          /\ aux.actions_data[i].action_round = 1
          /\ aux.actions_data[i].player_name = "p1"

\* C13: a preflop raise (round 1) that is not all-in is bucketed by
\* ratio = amount / big_blind: small_raise_preflop up to 2.2,
\* mid_raise_preflop up to 2.7, big_raise_preflop up to 3.2,
\* consider_all_in_preflop above; a raise of at least 0.98 times the player's
\* remaining stack is all_in_preflop whatever the ratio.
C13_PreflopRaiseTiers ==
    (Simplified /\ aux.action_details.action_type = 23 /\ aux.round_no = 1) =>
        LET amount == aux.action_details.action_sum
            bb == aux.blinds.big_blind
        IN /\ RaiseIsAllIn => Bucket = "all_in_preflop"
           /\ (~RaiseIsAllIn /\ bb > 0) =>
                 /\ (10 * amount <= 22 * bb) => Bucket = "small_raise_preflop"
                 /\ (22 * bb < 10 * amount /\ 10 * amount <= 27 * bb)
                        => Bucket = "mid_raise_preflop"
                 /\ (27 * bb < 10 * amount /\ 10 * amount <= 32 * bb)
                        => Bucket = "big_raise_preflop"
                 /\ (32 * bb < 10 * amount) => Bucket = "consider_all_in_preflop"

C13_Witness ==
    /\ Simplified
    /\ aux.action_details.action_type = 23
    /\ aux.round_no = 1
    /\ aux.blinds.big_blind = 10
    /\ aux.action_details.action_sum = 27
    /\ aux.player_stacks = [p1 |-> 1000]
    /\ Bucket = "mid_raise_preflop"

\* C14 as stated: a call action whose amount is at most 1.05 times the amount
\* required to match the round's maximum contribution is bucketed all_in_call.
C14_CallWithinMarginIsAllInCall ==
    (Simplified /\ aux.action_details.action_type = 3
        /\ aux.action_details.action_sum * 100 <= ToCall * 105)
        => Bucket = "all_in_call"

\* C14 amended: a call action is bucketed call whatever its amount; the bucket
\* all_in_call is given to the all-in actions whose amount is at most 1.05
\* times the amount required to match the round's maximum contribution, and
\* to no other action.
C14_OnlyAllInActionsAreAllInCall ==
    Simplified =>
        /\ aux.action_details.action_type = 3 => Bucket = "call"
        /\ Bucket = "all_in_call" <=>
              /\ aux.action_details.action_type = 7
              /\ aux.action_details.action_sum * 100 <= ToCall * 105

C14_Witness ==
    /\ Simplified
    /\ aux.action_details.action_type = 3
    /\ aux.current_round_max = 20
    /\ ToCall = 20
    /\ aux.action_details.action_sum = 21
    /\ Bucket = "call"

\* C15: an all-in action whose amount exceeds 1.05 times
\* max(0, round maximum - own round contribution) is bucketed all_in_preflop
\* in round 1 and all_in_postflop in every later round; an all-in action
\* within that margin is bucketed all_in_call.
C15_AllInRaiseOrCall ==
    (Simplified /\ aux.action_details.action_type = 7) =>
        IF aux.action_details.action_sum * 100 > ToCall * 105
        THEN Bucket = (IF aux.round_no = 1 THEN "all_in_preflop" ELSE "all_in_postflop")
        ELSE Bucket = "all_in_call"

C15_Witness ==
    /\ Simplified
    /\ aux.action_details.action_type = 7
    /\ aux.round_no = 3
    /\ ToCall = 20
    /\ aux.action_details.action_sum = 22
    /\ Bucket = "all_in_postflop"

\* the types C16 speaks of
OwnNameTypes == {0, 1, 2, 3, 4, 15}

\* C16 as stated: fold, check, call, ante, small_blind and big_blind actions
\* are each classified into the bucket named after their own type, in every
\* round.
C16_OwnNameInEveryRound ==
    (pc \in {"simplified", "recorded"} /\ aux.action_details.action_type \in OwnNameTypes)
        => Bucket = get_action_type(aux.action_details.action_type)

\* C16 amended: fold, check, call and ante actions are classified into the
\* bucket named after their own type in every round; small_blind and big_blind
\* actions are named after their type in round 0 only, in a betting round
\* they get no bucket.
C16_OwnNameExceptBettingRoundBlinds ==
    (pc \in {"simplified", "recorded"} /\ aux.action_details.action_type \in OwnNameTypes)
        => IF aux.action_details.action_type \in {1, 2} /\ aux.round_no >= 1
           THEN aux.result = None
           ELSE Bucket = CASE aux.action_details.action_type = 0 -> "fold"
                           [] aux.action_details.action_type = 1 -> "small_blind"
                           [] aux.action_details.action_type = 2 -> "big_blind"
                           [] aux.action_details.action_type = 3 -> "call"
                           [] aux.action_details.action_type = 4 -> "check"
                           [] OTHER -> "ante"

C16_Witness ==
    /\ pc = "simplified"
    /\ aux.action_details.action_type = 2
    /\ aux.round_no = 1
    /\ aux.result = None

\* C17: a bet in a postflop round is bucketed by ratio = amount /
\* pot_before_action: small_bet_postflop up to 0.33, mid_bet_postflop up to
\* 0.66, big_bet_postflop above; a bet in round 1 is unusual_bet_preflop
\* whatever its size.
C17_BetTiers ==
    (Simplified /\ aux.action_details.action_type = 5) =>
        LET amount == aux.action_details.action_sum
            pot == aux.pot_before_action
        IN IF aux.round_no = 1 THEN Bucket = "unusual_bet_preflop"
           ELSE pot > 0 =>
                 /\ (100 * amount <= 33 * pot) => Bucket = "small_bet_postflop"
                 /\ (33 * pot < 100 * amount /\ 100 * amount <= 66 * pot)
                        => Bucket = "mid_bet_postflop"
                 /\ (66 * pot < 100 * amount) => Bucket = "big_bet_postflop"

C17_Witness ==
    /\ Simplified
    /\ aux.action_details.action_type = 5
    /\ aux.round_no = 2
    /\ aux.pot_before_action = 100
    /\ aux.action_details.action_sum = 66
    /\ Bucket = "mid_bet_postflop"

\* the chips the action elements before the n-th put in: those of player (of
\* anyone for "any") in round same_round (in any round for -1)
RECURSIVE PutInBefore(_, _, _)
PutInBefore(n, player, same_round) ==
    IF n <= 1 THEN 0
    ELSE LET e == aux.elements[n - 1]
         IN PutInBefore(n - 1, player, same_round)
            + (IF (player = "any" \/ e.player = player)
                   /\ (same_round = -1 \/ e.round = same_round)
               THEN e.sum ELSE 0)

\* C18: a postflop raise is sized on the raise beyond the call: with
\* call_amount = max(0, round maximum contribution - own round contribution),
\* both taken over the earlier actions of the same round only, and
\* ratio = (amount - call_amount) / (pot_before + call_amount), the row kept
\* for it is small_raise_postflop up to 0.33, mid_raise_postflop up to 0.66
\* and big_raise_postflop above.
C18_PostflopRaiseBeyondCall ==
    pc = "xml_rounds" =>
        \A n \in ElementsOfType(23) :
            LET e == aux.elements[n]
                own == PutInBefore(n, e.player, e.round)
                round_max == Max(PutInBefore(n, "p1", e.round), PutInBefore(n, "p2", e.round))
                call_amount == Max(0, round_max - own)
                num == e.sum - call_amount
                den == PutInBefore(n, "any", -1) + call_amount
            IN (e.round >= 2 /\ den > 0) =>
                  \E i \in RowsOf(n) :
                      aux.actions_data[i].simple_action_type =
                          IF 100 * num <= 33 * den THEN "small_raise_postflop"
                          ELSE IF 100 * num <= 66 * den THEN "mid_raise_postflop"
                          ELSE "big_raise_postflop"

C18_Witness ==
    /\ pc = "xml_rounds"
    /\ Len(aux.elements) = 3
    /\ aux.elements[1].round = 1
    /\ aux.elements[2].round = 2
    /\ aux.elements[2].player = "p1"
    /\ aux.elements[3] = [round |-> 2, player |-> "p2", type |-> 23, sum |-> 50]
    /\ aux.actions_data[Len(aux.actions_data)].simple_action_type = "small_raise_postflop"

\* C19: simplify_action never fails on a zero denominator, the ratio is taken
\* as 0: a postflop bet into a pot of 0 is small_bet_postflop, a postflop
\* raise with pot_before + call_amount = 0 is small_raise_postflop, and a
\* preflop raise that is not all-in with a big blind of 0 is
\* small_raise_preflop.
C19_ZeroDenominator ==
    Simplified =>
        /\ Bucket \in BucketNames \cup {"None"}
        /\ (aux.action_details.action_type = 5 /\ aux.round_no >= 2
               /\ aux.pot_before_action = 0) => Bucket = "small_bet_postflop"
        /\ (aux.action_details.action_type = 23 /\ aux.round_no >= 2
               /\ aux.pot_before_action + ToCall = 0) => Bucket = "small_raise_postflop"
        /\ (aux.action_details.action_type = 23 /\ aux.round_no = 1
               /\ aux.blinds.big_blind = 0 /\ ~RaiseIsAllIn) => Bucket = "small_raise_preflop"

C19_Witness ==
    /\ Simplified
    /\ aux.action_details.action_type = 23
    /\ aux.round_no = 2
    /\ aux.pot_before_action = 0
    /\ ToCall = 0
    /\ aux.action_details.action_sum = 67
    /\ Bucket = "small_raise_postflop"

-----------------------------------------------------------------------------
(* Hole cards, card_utils.py and database_utils.py lines 145-163: a card is *)
(* the sequence of its characters, a card_values string the sequence of its *)
(* whitespace-separated words                                              *)

\* ''.join of one-character strings
RECURSIVE Join(_)
Join(chars) == IF chars = <<>> THEN "" ELSE Head(chars) \o Join(Tail(chars))

\* parse_card_values: the non-empty words of the string; an empty or missing
\* string (no words) gives no cards
parse_card_values(card_string) == SelectSeq(card_string, LAMBDA card : card # <<>>)

\* get_card_rank; None is written "None", as an f-string prints it
get_card_rank(card) ==
    IF Len(card) < 2 THEN "None"
    ELSE IF card[1] \in {"S", "C", "H", "D"} THEN Join(Tail(card)) ELSE card[1]

get_card_suit(card) ==
    IF Len(card) < 2 THEN "None"
    ELSE IF card[1] \in {"S", "C", "H", "D"} THEN card[1] ELSE card[2]

\* ranks, card_utils.py lines 97 and 70-73: rank_map gives 14 for 'A' down
\* to 2 for '2'
ranks == <<"A", "K", "Q", "J", "T", "9", "8", "7", "6", "5", "4", "3", "2">>

rank_map_get(rank) ==
    IF \E i \in 1..Len(ranks) : ranks[i] = rank
    THEN 15 - (CHOOSE i \in 1..Len(ranks) : ranks[i] = rank)
    ELSE 0

categorize_hand(cards) ==
    IF Len(cards) # 2 THEN "Unknown"
    ELSE LET r1 == get_card_rank(cards[1])
             r2 == get_card_rank(cards[2])
             rank1 == IF r1 = "10" THEN "T" ELSE r1
             rank2 == IF r2 = "10" THEN "T" ELSE r2
             suffix == IF get_card_suit(cards[1]) = get_card_suit(cards[2])
                       THEN "s" ELSE "o"
         IN IF rank_map_get(rank1) > rank_map_get(rank2)
            THEN rank1 \o rank2 \o suffix
            ELSE IF rank_map_get(rank2) > rank_map_get(rank1)
                 THEN rank2 \o rank1 \o suffix
                 ELSE rank1 \o rank1

get_all_hand_categories ==
    {ranks[i] \o ranks[i] : i \in 1..Len(ranks)}
    \cup UNION {{ranks[i] \o ranks[j] \o x : j \in (i + 1)..Len(ranks), x \in {"s", "o"}} :
                   i \in 1..Len(ranks)}

\* lines 147-163: the category hole_cards_dict holds for a player's Pocket
\* row, "none" when it holds no entry
HoleCardCategory(card_values) ==
    LET cards == parse_card_values(card_values)
    IN IF cards = <<>> THEN "none" ELSE categorize_hand(cards)

\* the Pocket row of the button: up to three words out of shown cards and the
\* hidden card 'X'
InitCards ==
    /\ pc = "cards"
    /\ inp = [game_type |-> "heads_up", exclude_hero |-> TRUE]
    /\ decision_tree = InitialTree(TRUE)
    /\ cur = IdleCur
    /\ budget = [games |-> 0, actions |-> 0]
    /\ store = [data |-> None, style |-> "none"]
    /\ tree_data_cache = EmptyDict
    /\ \E n \in 0..3, hero \in 1..2 :
         \E words \in [1..n -> {<<"S", "K">>, <<"S", "A">>, <<"C", "6">>,
                                <<"H", "1", "0">>, <<"X">>}] :
            aux = [card_values |-> words, hero |-> hero]

\* lines 264-389 for the button's first preflop row of the game
CardsRow ==
    /\ pc = "cards"
    /\ \E t \in {"fold", "small_raise_preflop"} :
         LET players == PlayersOf(<<"BTN/SB", "BB">>, aux.hero,
                                  <<HoleCardCategory(aux.card_values), "none">>)
             before == BeginHeadsUpStreet(decision_tree, players, "preflop")
         IN decision_tree' = SequenceAction(before, ActionRow(players, 1, t)).tree
    /\ pc' = "cards_done"
    /\ UNCHANGED <<inp, cur, budget, store, tree_data_cache, aux>>

SpecCards == InitCards /\ [][CardsRow]_vars

-----------------------------------------------------------------------------
(* The tree cache and the memoized lookup: tree_analysis.py lines 3-4 and  *)
(* 132-156, callbacks.py lines 8, 86-89 and 966-983.  tree_data_cache is   *)
(* the dict bound to callbacks._tree_data_cache; aux.analysis is the dict  *)
(* bound to tree_analysis._tree_data_cache and aux.shared tells whether    *)
(* both names are bound to the same dict object.  A tree's id is the       *)
(* number of its registration, so the keys of a dict are in insertion      *)
(* order when in increasing order.                                         *)

\* the trees registered in one session
MaxRegistered == 7

\* the lookups made in one session
MaxLookups == 2

\* callbacks.py line 975: the size above which clean_cache trims
TrimAbove == 5

\* callbacks.py line 977: the entries clean_cache keeps
KeptEntries == 3

\* the games of the trees the session loads
CacheGames ==
    {[players |-> PlayersOf(<<"BTN/SB", "BB">>, 1, <<"AKs", "none">>), rows |-> rows] :
        rows \in {<<[round |-> 1, player |-> 1, type |-> "fold"]>>,
                  <<[round |-> 1, player |-> 1, type |-> "all_in_preflop"],
                    [round |-> 1, player |-> 2, type |-> "call"]>>}}

\* tree_analysis.py lines 145-156: the function under the lru_cache decorator
get_node_by_path_uncached(analysis_cache, tree_data_id, path) ==
    LET tree_data == Get(analysis_cache, tree_data_id, None)
    IN IF tree_data = None \/ DOMAIN tree_data = {} \/ path = <<>>
       THEN None
       ELSE get_node_by_path(tree_data, path)

\* line 133: lru_cache returns the memoized result of the arguments when it
\* holds one (fewer lookups are made here than its maxsize of 1024)
get_node_by_path_cached(lru, analysis_cache, tree_data_id, path) ==
    IF Has(lru, <<tree_data_id, path>>)
    THEN lru[<<tree_data_id, path>>]
    ELSE get_node_by_path_uncached(analysis_cache, tree_data_id, path)

\* list(d.keys())[-n:] of a dict whose keys are in increasing order
RECURSIVE LastKeys(_, _)
LastKeys(keys, n) ==
    IF n = 0 \/ keys = {} THEN {}
    ELSE LET k == CHOOSE x \in keys : \A y \in keys : y <= x
         IN {k} \cup LastKeys(keys \ {k}, n - 1)

InitCache ==
    /\ pc = "session"
    /\ inp = [game_type |-> "heads_up", exclude_hero |-> TRUE]
    /\ decision_tree = None
    /\ cur = IdleCur
    /\ budget = [games |-> 0, actions |-> 0]
    /\ store = [data |-> None, style |-> "none"]
    /\ tree_data_cache = EmptyDict
    /\ aux = [analysis |-> EmptyDict, shared |-> TRUE, lru |-> EmptyDict,
              last |-> None]

\* load_data, callbacks.py lines 68-96, with filters that give another tree
\* than the last load: a new tree is built and stored under its id in the
\* dict bound to callbacks._tree_data_cache
CacheLoad ==
    /\ pc = "session"
    /\ budget.games < MaxRegistered
    /\ \E game \in CacheGames :
         LET tree_data == BuildTree(<<game>>, "heads_up", TRUE)
             tree_data_id == budget.games + 1
         IN /\ tree_data # decision_tree
            /\ decision_tree' = tree_data
            /\ tree_data_cache' = RegisterTree(tree_data_cache, tree_data, tree_data_id)
            /\ aux' = [aux EXCEPT
                          !.analysis = IF aux.shared
                                       THEN RegisterTree(@, tree_data, tree_data_id)
                                       ELSE @,
                          !.last = None]
            /\ store' = [data |-> tree_data, style |-> MainStyle(tree_data)]
    /\ budget' = [budget EXCEPT !.games = @ + 1]
    /\ UNCHANGED <<pc, inp, cur>>

\* clean_cache, callbacks.py lines 972-983: above five trees the name
\* callbacks._tree_data_cache is bound to a new dict of the last three
\* entries; the memoized results are cleared
CacheClean ==
    /\ pc = "session"
    /\ IF Cardinality(DOMAIN tree_data_cache) > TrimAbove
       THEN /\ tree_data_cache' =
                  [k \in LastKeys(DOMAIN tree_data_cache, KeptEntries) |-> tree_data_cache[k]]
            /\ aux' = [aux EXCEPT !.shared = FALSE, !.lru = EmptyDict, !.last = None]
       ELSE /\ tree_data_cache' = tree_data_cache
            /\ aux' = [aux EXCEPT !.lru = EmptyDict, !.last = None]
    /\ UNCHANGED <<pc, inp, decision_tree, cur, budget, store>>

\* get_node_by_path_cached(tree_data_id, path_tuple) for the id of the last
\* tree registered or the id the next tree will get
CacheLookup ==
    /\ pc = "session"
    /\ budget.actions < MaxLookups
    /\ \E tree_data_id \in {budget.games, budget.games + 1} \ {0},
          path \in {<<>>, Keys(<<"root", "preflop">>), Keys(<<"root", "preflop", "BTN/SB", "fold">>)} :
         LET result == get_node_by_path_cached(aux.lru, aux.analysis, tree_data_id, path)
         IN aux' = [aux EXCEPT
                       !.lru = Put(@, <<tree_data_id, path>>, result),
                       !.last = [tree_data_id |-> tree_data_id, path |-> path,
                                 result |-> result]]
    /\ budget' = [budget EXCEPT !.actions = @ + 1]
    /\ UNCHANGED <<pc, inp, decision_tree, cur, store, tree_data_cache>>

NextCache == CacheLoad \/ CacheClean \/ CacheLookup

SpecCache == InitCache /\ [][NextCache]_vars

-----------------------------------------------------------------------------
(* Navigation in the loaded tree: the callbacks of callbacks.py that write *)
(* the 'current-node-path' store.  decision_tree is the 'decision-tree-    *)
(* data' store, aux.path the 'current-node-path' store (layout.py line     *)
(* 347), aux.street the value of 'street-selector' (layout.py line 268),   *)
(* aux.event the callback that ran last and aux.resolved whether the path  *)
(* it computed resolved.  tree_data_cache is callbacks._tree_data_cache.   *)

\* the navigation events of one session
MaxNavEvents == 3

\* the loads of one session
MaxNavLoads == 3

\* the trees the filters of the session can give, the error value included
NavTrees ==
    {BuildTree(<<[players |-> PlayersOf(<<"BTN/SB", "BB">>, 1, <<"AKs", "none">>),
                  rows |-> rows]>>, "heads_up", TRUE) :
        rows \in {<<[round |-> 1, player |-> 1, type |-> "fold"]>>,
                  RaiseCallRows \o <<[round |-> 2, player |-> 2, type |-> "check"]>>}}
    \cup {[error |-> "No games found"]}

\* the original_id of a drawn element, as its '-'-separated components: the
\* ids build_tree_elements gives the nodes of any of the trees, and one that
\* names no node
NavIds ==
    UNION {PathsOf(tree) \ {<<>>} : tree \in {t \in NavTrees : ~Has(t, "error")}}
        \cup {<<"root">>, <<"XYZ">>}

\* the option of a decision or dropdown button
NavOptions == {id[Len(id)] : id \in NavIds}

\* update_tree_visualization lines 119-207 and reset_view lines 837-921: the
\* path written for the street, current_path standing for no_update
default_path(tree_data, street, current_path) ==
    IF Has(tree_data, "children") /\ Has(tree_data.children, street)
    THEN LET street_node == tree_data.children[street]
             positions == SelectSeq(street_node.child_order,
                                    LAMBDA pos : IF street = "preflop" THEN IsBtnOrSb(pos)
                                                 ELSE IsBb(pos))
         IN IF positions # <<>> THEN <<"root", street, positions[1]>>
            ELSE <<"root", street>>
    ELSE current_path

\* update_tree_visualization lines 114-117, then the above
update_tree_visualization(street, tree_data, current_path) ==
    IF tree_data = None \/ Has(tree_data, "error") THEN current_path
    ELSE default_path(tree_data, street, current_path)

\* handle_node_tap lines 411-425 and expand_node lines 675-685
path_of_original_id(original_id) ==
    IF Len(original_id) > 1 THEN <<"root">> \o original_id
    ELSE IF original_id[1] \in StreetNames THEN <<"root", original_id[1]>>
    ELSE original_id

\* mutant: the computed path is stored without looking it up
checked_path_unchecked(tree_data, new_path, current_path) == new_path

\* lines 362-365, 428-431, 622-625, 942-945: the computed path is returned
\* only when get_node_by_path finds its node
checked_path(tree_data, new_path, current_path) ==
    IF get_node_by_path(tree_data, Keys(new_path)) = None THEN current_path ELSE new_path

\* go_back lines 934-964
go_back(tree_data, current_path) ==
    IF tree_data = None \/ Len(current_path) <= 2 THEN current_path
    ELSE checked_path(tree_data, SubSeq(current_path, 1, Len(current_path) - 1), current_path)

\* the stores after a callback computed new_path and wrote path
AfterEvent(event, new_path, path) ==
    [aux EXCEPT !.path = path, !.event = event,
                !.resolved = get_node_by_path(decision_tree, Keys(new_path)) # None]

InitNav ==
    /\ pc = "nav"
    /\ inp = [game_type |-> "heads_up", exclude_hero |-> TRUE]
    /\ decision_tree = None
    /\ cur = IdleCur
    /\ budget = [games |-> 0, actions |-> 0]
    /\ store = [data |-> None, style |-> "none"]
    /\ tree_data_cache = EmptyDict
    /\ aux = [path |-> <<"root">>, street |-> "preflop", event |-> "layout",
              resolved |-> FALSE]

\* load_data lines 50-96 with filters that give another value than the last
\* load, then update_tree_visualization, which the write to the
\* 'decision-tree-data' store triggers
NavLoad ==
    /\ pc = "nav"
    /\ budget.games < MaxNavLoads
    /\ \E tree_data \in NavTrees \ {decision_tree} :
         /\ decision_tree' = tree_data
         /\ tree_data_cache' = RegisterTree(tree_data_cache, tree_data, budget.games + 1)
         /\ store' = [data |-> tree_data, style |-> MainStyle(tree_data)]
         /\ aux' = [aux EXCEPT
                       !.path = update_tree_visualization(aux.street, tree_data, @),
                       !.event = "load_data", !.resolved = TRUE]
    /\ budget' = [budget EXCEPT !.games = @ + 1]
    /\ UNCHANGED <<pc, inp, cur>>

\* update_tree_visualization after the street selector or the hero switch
\* changed
NavStreet ==
    /\ pc = "nav"
    /\ budget.actions < MaxNavEvents
    /\ \E street \in StreetNames :
         aux' = [aux EXCEPT
                    !.street = street,
                    !.path = update_tree_visualization(street, decision_tree, @),
                    !.event = "update_tree_visualization", !.resolved = TRUE]
    /\ budget' = [budget EXCEPT !.actions = @ + 1]
    /\ UNCHANGED <<pc, inp, decision_tree, cur, store, tree_data_cache>>

\* handle_node_tap lines 402-431 and 592
NavTap ==
    /\ pc = "nav"
    /\ budget.actions < MaxNavEvents
    /\ \E original_id \in NavIds :
         LET new_path == path_of_original_id(original_id)
         IN aux' = AfterEvent("handle_node_tap", new_path,
                              IF decision_tree = None \/ Has(decision_tree, "error")
                              THEN aux.path
                              ELSE checked_path(decision_tree, new_path, aux.path))
    /\ budget' = [budget EXCEPT !.actions = @ + 1]
    /\ UNCHANGED <<pc, inp, decision_tree, cur, store, tree_data_cache>>

\* handle_decision_selection lines 605-644
NavDecision ==
    /\ pc = "nav"
    /\ budget.actions < MaxNavEvents
    /\ \E selected_option \in NavOptions :
         LET new_path == Append(aux.path, selected_option)
         IN aux' = AfterEvent("handle_decision_selection", new_path,
                              IF decision_tree = None THEN aux.path
                              ELSE checked_path(decision_tree, new_path, aux.path))
    /\ budget' = [budget EXCEPT !.actions = @ + 1]
    /\ UNCHANGED <<pc, inp, decision_tree, cur, store, tree_data_cache>>

\* navigate_breadcrumb lines 344-349 and 361-384: a breadcrumb of the path
NavBreadcrumb ==
    /\ pc = "nav"
    /\ budget.actions < MaxNavEvents
    /\ \E breadcrumb_index \in 0..(Len(aux.path) - 1) :
         LET new_path == SubSeq(aux.path, 1, breadcrumb_index + 1)
         IN aux' = AfterEvent("navigate_breadcrumb", new_path,
                              IF decision_tree = None THEN aux.path
                              ELSE checked_path(decision_tree, new_path, aux.path))
    /\ budget' = [budget EXCEPT !.actions = @ + 1]
    /\ UNCHANGED <<pc, inp, decision_tree, cur, store, tree_data_cache>>

\* navigate_breadcrumb lines 350-357 and 361-384: an option of a dropdown
NavOption ==
    /\ pc = "nav"
    /\ budget.actions < MaxNavEvents
    /\ \E path_index \in 0..(Len(aux.path) - 1), option \in NavOptions :
         LET new_path == Append(SubSeq(aux.path, 1, path_index + 1), option)
         IN aux' = AfterEvent("path_option", new_path,
                              IF decision_tree = None THEN aux.path
                              ELSE checked_path(decision_tree, new_path, aux.path))
    /\ budget' = [budget EXCEPT !.actions = @ + 1]
    /\ UNCHANGED <<pc, inp, decision_tree, cur, store, tree_data_cache>>

\* go_back
NavBack ==
    /\ pc = "nav"
    /\ budget.actions < MaxNavEvents
    /\ aux' = [aux EXCEPT !.path = go_back(decision_tree, @), !.event = "go_back",
                          !.resolved = TRUE]
    /\ budget' = [budget EXCEPT !.actions = @ + 1]
    /\ UNCHANGED <<pc, inp, decision_tree, cur, store, tree_data_cache>>

\* a click on 'reset-view-button' runs reset_view, lines 832-921, and
\* clean_cache, lines 972-983
NavReset ==
    /\ pc = "nav"
    /\ budget.actions < MaxNavEvents
    /\ aux' = [aux EXCEPT
                  !.path = IF decision_tree = None THEN @
                           ELSE default_path(decision_tree, aux.street, @),
                  !.event = "reset_view", !.resolved = TRUE]
    /\ tree_data_cache' =
          IF Cardinality(DOMAIN tree_data_cache) > TrimAbove
          THEN [k \in LastKeys(DOMAIN tree_data_cache, KeptEntries) |-> tree_data_cache[k]]
          ELSE tree_data_cache
    /\ budget' = [budget EXCEPT !.actions = @ + 1]
    /\ UNCHANGED <<pc, inp, decision_tree, cur, store>>

NextNav ==
    \/ NavLoad
    \/ NavStreet
    \/ NavTap
    \/ NavDecision
    \/ NavBreadcrumb
    \/ NavOption
    \/ NavBack
    \/ NavReset

SpecNav == InitNav /\ [][NextNav]_vars

-----------------------------------------------------------------------------
(* Drawing the tree: build_tree_elements, visualization.py lines 123-227,  *)
(* and expand_node, callbacks.py lines 657-793.  An original_id is the     *)
(* sequence of its '-'-separated components, which is the path of child    *)
(* names from the root to the node.  aux.elements holds the drawn nodes,   *)
(* aux.edges the pairs of original ids an edge joins.                      *)

\* the hands of one drawn tree
MaxViewHands == 2

\* max_depth of the calls of build_tree_elements in callbacks.py
ViewDepth == 2

\* preflop rows of the hands: a limp or a raise, then an all-in and its answer
ViewRows ==
    {<<[round |-> 1, player |-> 1, type |-> "fold"]>>,
     <<[round |-> 1, player |-> 1, type |-> "all_in_preflop"],
       [round |-> 1, player |-> 2, type |-> "fold"]>>,
     <<[round |-> 1, player |-> 1, type |-> "call"],
       [round |-> 1, player |-> 2, type |-> "all_in_preflop"]>>,
     <<[round |-> 1, player |-> 1, type |-> "call"],
       [round |-> 1, player |-> 2, type |-> "all_in_preflop"],
       [round |-> 1, player |-> 1, type |-> "call"]>>,
     <<[round |-> 1, player |-> 1, type |-> "small_raise_preflop"],
       [round |-> 1, player |-> 2, type |-> "all_in_preflop"],
       [round |-> 1, player |-> 1, type |-> "fold"]>>}

ViewGames ==
    {[players |-> PlayersOf(<<"BTN/SB", "BB">>, 1, <<"AKs", "none">>), rows |-> rows] :
        rows \in ViewRows}

\* 'fold' in original_id
IdHasFold(original_id) == \E i \in 1..Len(original_id) : original_id[i] = "fold"

\* 'call' in original_id
IdHasCall(original_id) == \E i \in 1..Len(original_id) : HasCall(original_id[i])

\* visualization.py lines 158-160
element_is_terminal(current_data, original_id) ==
    \/ Get(current_data, "is_terminal", FALSE)
    \/ IdHasFold(original_id)
    \/ (IdHasCall(original_id) /\ Get(current_data, "facing_all_in", FALSE))

\* callbacks.py lines 743-745: the same test on the child's name
expanded_is_terminal(child_data, child_name) ==
    \/ Get(child_data, "is_terminal", FALSE)
    \/ child_name = "fold"
    \/ (HasCall(child_name) /\ Get(child_data, "facing_all_in", FALSE))

\* visualization.py lines 219-222 and callbacks.py lines 715-718: the children
\* listed, at most limit of them
visible_children(node, exclude_hero, limit) ==
    LET sorted == sorted_children(node, exclude_hero)
    IN SubSeq(sorted, 1, IF Len(sorted) < limit THEN Len(sorted) ELSE limit)

\* visualization.py lines 131-225: the nodes and edges drawn from the queue
\* entry (current_data, original_id, depth)
RECURSIVE build_tree_elements(_, _, _, _, _)
build_tree_elements(current_data, original_id, depth, max_depth, exclude_hero) ==
    LET is_terminal == element_is_terminal(current_data, original_id)
        shown == IF Has(current_data, "children") /\ ~is_terminal /\ depth < max_depth
                 THEN visible_children(current_data, exclude_hero,
                                       IF depth < 2 THEN 10 ELSE 5)
                 ELSE <<>>
        below == [i \in 1..Len(shown) |->
                    build_tree_elements(current_data.children[shown[i]],
                                        Append(original_id, shown[i]), depth + 1,
                                        max_depth, exclude_hero)]
    IN [nodes |-> {[original_id |-> original_id, terminal |-> is_terminal,
                    depth |-> depth, by |-> "build_tree_elements"]}
                  \cup UNION {below[i].nodes : i \in 1..Len(shown)},
        edges |-> {<<original_id, Append(original_id, shown[i])>> : i \in 1..Len(shown)}
                  \cup UNION {below[i].edges : i \in 1..Len(shown)}]

InitView ==
    /\ pc = "view"
    /\ inp = [game_type |-> "heads_up", exclude_hero |-> TRUE]
    /\ \E n \in 1..MaxViewHands : \E games \in [1..n -> ViewGames] :
          decision_tree = BuildTree(games, "heads_up", TRUE)
    /\ cur = IdleCur
    /\ budget = [games |-> 0, actions |-> 0]
    /\ store = [data |-> decision_tree, style |-> "block"]
    /\ tree_data_cache = EmptyDict
    /\ aux = [elements |-> {}, edges |-> {}]

\* a navigation callback draws the node of a path: build_tree_elements with
\* the node, its original id and max_depth = 2
ViewBuild ==
    /\ pc = "view"
    /\ \E path \in PathsOf(decision_tree) \ {<<>>} :
         LET drawn == build_tree_elements(GetAt(decision_tree, path), path, 0,
                                          ViewDepth, inp.exclude_hero)
         IN aux' = [elements |-> drawn.nodes, edges |-> drawn.edges]
    /\ UNCHANGED <<pc, inp, decision_tree, cur, budget, store, tree_data_cache>>

\* expand_node on a drawn node that is not flagged terminal and has no
\* outgoing edge: its children are added unless already drawn
ViewExpand ==
    /\ pc = "view"
    /\ \E e \in aux.elements :
         /\ ~e.terminal
         /\ ~\E edge \in aux.edges : edge[1] = e.original_id
         /\ LET selected_node == get_node_by_path(decision_tree,
                                     Keys(path_of_original_id(e.original_id)))
                shown == IF selected_node = None \/ ~Has(selected_node, "children")
                         THEN <<>>
                         ELSE visible_children(selected_node, inp.exclude_hero, 10)
                new == {i \in 1..Len(shown) :
                          ~\E d \in aux.elements :
                              d.original_id = Append(e.original_id, shown[i])}
            IN /\ new # {}
               /\ aux' = [elements |-> aux.elements \cup
                              {[original_id |-> Append(e.original_id, shown[i]),
                                terminal |-> expanded_is_terminal(
                                                 selected_node.children[shown[i]], shown[i]),
                                depth |-> e.depth + 1, by |-> "expand_node"] : i \in new},
                          edges |-> aux.edges \cup
                              {<<e.original_id, Append(e.original_id, shown[i])>> : i \in new}]
    /\ UNCHANGED <<pc, inp, decision_tree, cur, budget, store, tree_data_cache>>

NextView == ViewBuild \/ ViewExpand

SpecView == InitView /\ [][NextView]_vars

-----------------------------------------------------------------------------
(* process_directory, database_building.py lines 540-752, on one chunk of  *)
(* files (chunk_size is 50, line 572).  aux.futures holds the state and    *)
(* the result of each submitted call of process_xml_file, aux.done_order   *)
(* the order in which the calls completed, aux.results the list the        *)
(* coordinating thread collects, aux.db the tables and aux.before the      *)
(* tables when the run began.                                              *)

\* the files of the chunk
MaxChunkFiles == 2

\* the threads of the pool that run at a time
MaxWorkers == 2

\* the runs of process_directory over the chunk
MaxRuns == 2

\* what a file holds: the gamecode of its one game, or text that does not parse
ChunkFileChoices ==
    {[success |-> TRUE, game_id |-> "g1"], [success |-> TRUE, game_id |-> "g2"],
     [success |-> FALSE, game_id |-> ""]}

\* process_xml_file lines 221-512, the shape of the value it returns: the
\* rows of the file's game and of its player
process_xml_file(file) ==
    IF file.success
    THEN [success |-> TRUE,
          players |-> {"p1"},
          games |-> <<[game_id |-> file.game_id]>>,
          game_players |-> <<[game_id |-> file.game_id, player_name |-> "p1"]>>,
          cards |-> <<[game_id |-> file.game_id, card_type |-> "Pocket",
                       player_name |-> "p1"]>>,
          actions |-> <<[game_id |-> file.game_id, player_name |-> "p1",
                         action_order |-> 1]>>]
    ELSE [success |-> FALSE, players |-> {}, games |-> <<>>, game_players |-> <<>>,
          cards |-> <<>>, actions |-> <<>>]

\* lines 631-637: the rows of one kind of the successful results, in the
\* order of the results
RECURSIVE all_rows(_, _)
all_rows(results, kind) ==
    IF results = <<>> THEN <<>>
    ELSE (IF Head(results).success THEN Head(results)[kind] ELSE <<>>)
             \o all_rows(Tail(results), kind)

\* lines 643-651: the games not in existing_games, each added to it
RECURSIVE games_to_insert(_, _)
games_to_insert(all_games, existing_games) ==
    IF all_games = <<>> THEN <<>>
    ELSE IF Head(all_games).game_id \in existing_games
         THEN games_to_insert(Tail(all_games), existing_games)
         ELSE <<Head(all_games)>>
                  \o games_to_insert(Tail(all_games),
                                     existing_games \cup {Head(all_games).game_id})

\* INSERT OR IGNORE of rows into a table whose primary key is the fields keys
RECURSIVE insert_or_ignore(_, _, _)
insert_or_ignore(table, rows, keys) ==
    IF rows = <<>> THEN table
    ELSE insert_or_ignore(
             IF \E i \in 1..Len(table) : \A k \in keys : table[i][k] = Head(rows)[k]
             THEN table ELSE Append(table, Head(rows)),
             Tail(rows), keys)

\* lines 514-538 with one player name: the id of the name in the players table
player_id_of(player_name) == IF player_name = "p1" THEN 1 ELSE 0

\* lines 666-672, 687-690, 714-720: the tuple of a row, with the player's id
with_player_id(rows) ==
    [i \in 1..Len(rows) |->
        [k \in (DOMAIN rows[i] \ {"player_name"}) \cup {"player_id"} |->
            IF k = "player_id" THEN player_id_of(rows[i].player_name) ELSE rows[i][k]]]

\* lines 624-731: the tables, existing_games and the counters after the
\* results of the chunk are written
write_chunk(st, results) ==
    LET new_games == games_to_insert(all_rows(results, "games"), st.existing_games)
        actions_to_insert == with_player_id(all_rows(results, "actions"))
    IN [st EXCEPT
          !.existing_games = @ \cup {new_games[i].game_id : i \in 1..Len(new_games)},
          !.db = [players |-> @.players \cup UNION {results[i].players : i \in 1..Len(results)},
                  games |-> insert_or_ignore(@.games, new_games, {"game_id"}),
                  game_players |-> insert_or_ignore(@.game_players,
                                       with_player_id(all_rows(results, "game_players")),
                                       {"game_id", "player_id"}),
                  cards |-> @.cards \o with_player_id(all_rows(results, "cards")),
                  actions |-> @.actions \o actions_to_insert],
          !.total_games = @ + Len(new_games),
          !.total_actions = @ + Len(actions_to_insert),
          !.phase = "written"]

\* mutant: results are taken as the calls complete
next_future_as_completed(results, done_order) ==
    IF Len(done_order) > Len(results) THEN done_order[Len(results) + 1] ELSE 0

\* lines 597-603: 'for future in futures' walks the dict in the order of the
\* submissions
next_future(results, done_order) == Len(results) + 1

\* process_directory lines 540-597 on an empty database: the calls are submitted
InitIngest ==
    /\ pc = "ingest"
    /\ inp = [game_type |-> "heads_up", exclude_hero |-> TRUE]
    /\ decision_tree = None
    /\ cur = IdleCur
    /\ budget = [games |-> 0, actions |-> 0]
    /\ store = [data |-> None, style |-> "none"]
    /\ tree_data_cache = EmptyDict
    /\ \E n \in 1..MaxChunkFiles : \E files \in [1..n -> ChunkFileChoices] :
          aux = [files |-> files, run |-> 1, phase |-> "pool",
                 futures |-> [i \in 1..n |-> [state |-> "queued", result |-> None]],
                 done_order |-> <<>>, results |-> <<>>,
                 existing_games |-> {},
                 db |-> [players |-> {}, games |-> <<>>, game_players |-> <<>>,
                         cards |-> <<>>, actions |-> <<>>],
                 before |-> [players |-> {}, games |-> <<>>, game_players |-> <<>>,
                             cards |-> <<>>, actions |-> <<>>],
                 successful_files |-> 0, total_games |-> 0, total_actions |-> 0]

\* a free thread of the pool takes the call submitted first
WorkerStart ==
    /\ pc = "ingest"
    /\ aux.phase = "pool"
    /\ Cardinality({i \in DOMAIN aux.futures : aux.futures[i].state = "running"}) < MaxWorkers
    /\ \E i \in DOMAIN aux.futures :
         /\ aux.futures[i].state = "queued"
         /\ \A j \in 1..(i - 1) : aux.futures[j].state # "queued"
         /\ aux' = [aux EXCEPT !.futures[i].state = "running"]
    /\ UNCHANGED <<pc, inp, decision_tree, cur, budget, store, tree_data_cache>>

\* a thread returns from process_xml_file
WorkerFinish ==
    /\ pc = "ingest"
    /\ \E i \in DOMAIN aux.futures :
         /\ aux.futures[i].state = "running"
         /\ aux' = [aux EXCEPT
                       !.futures[i] = [state |-> "done",
                                       result |-> process_xml_file(aux.files[i])],
                       !.done_order = Append(@, i)]
    /\ UNCHANGED <<pc, inp, decision_tree, cur, budget, store, tree_data_cache>>

\* lines 601-607: future.result() of the next future returns
Collect ==
    /\ pc = "ingest"
    /\ aux.phase = "pool"
    /\ Len(aux.results) < Len(aux.files)
    /\ LET i == next_future(aux.results, aux.done_order)
       IN /\ i \in DOMAIN aux.futures
          /\ aux.futures[i].state = "done"
          /\ aux' = [aux EXCEPT
                        !.results = Append(@, aux.futures[i].result),
                        !.successful_files =
                            IF aux.futures[i].result.success THEN @ + 1 ELSE @]
    /\ UNCHANGED <<pc, inp, decision_tree, cur, budget, store, tree_data_cache>>

\* lines 622-734 once every result is collected
WriteChunk ==
    /\ pc = "ingest"
    /\ aux.phase = "pool"
    /\ Len(aux.results) = Len(aux.files)
    /\ aux' = write_chunk(aux, aux.results)
    /\ UNCHANGED <<pc, inp, decision_tree, cur, budget, store, tree_data_cache>>

\* process_directory is run again over the same files: lines 566-569 read
\* the stored game ids, lines 581-597 reset the counters and submit the calls
RunAgain ==
    /\ pc = "ingest"
    /\ aux.phase = "written"
    /\ aux.run < MaxRuns
    /\ aux' = [aux EXCEPT
                  !.run = @ + 1, !.phase = "pool",
                  !.futures = [i \in DOMAIN aux.files |->
                                  [state |-> "queued", result |-> None]],
                  !.done_order = <<>>, !.results = <<>>,
                  !.existing_games = {aux.db.games[i].game_id : i \in 1..Len(aux.db.games)},
                  !.before = aux.db,
                  !.successful_files = 0, !.total_games = 0, !.total_actions = 0]
    /\ UNCHANGED <<pc, inp, decision_tree, cur, budget, store, tree_data_cache>>

NextIngest == WorkerStart \/ WorkerFinish \/ Collect \/ WriteChunk \/ RunAgain

SpecIngest == InitIngest /\ [][NextIngest]_vars

-----------------------------------------------------------------------------
(* Properties of the heads-up sequencing of a row *)

\* a row was read in the street
RowRead == pc = "street" /\ aux # None

\* the number of actions of the bucket counted at the node of the path
CountAt(tree, path, bucket) == Get(GetAt(tree, path).actions, bucket, 0)

\* the row passed the two tests that skip a row
Accepted ==
    /\ aux.row.position = aux.before.current_position
    /\ ~aux.before.is_terminal
    /\ aux.before.facing_all_in => aux.row.type \in {"call", "fold", "all_in_call"}

\* the row was counted at the node that was current before it
RowCounted ==
    CountAt(decision_tree, aux.before.current_node, aux.row.type)
        = CountAt(aux.tree_before, aux.before.current_node, aux.row.type) + 1

\* C11: in heads-up sequencing, an action whose position is not the currently
\* expected position, or that follows a terminal action in the same street of
\* the hand, changes no count and creates no node; later actions of the
\* same hand that do match the expected position are still processed.
C11_MismatchedRowSkipped ==
    RowRead =>
        /\ (aux.row.position # aux.before.current_position \/ aux.before.is_terminal)
              => /\ decision_tree = aux.tree_before
                 /\ cur.seq = aux.before
        /\ Accepted => RowCounted

C11_Witness ==
    /\ RowRead
    /\ aux.mismatched
    /\ ~aux.before.is_terminal
    /\ aux.row.position = aux.before.current_position
    /\ RowCounted
    /\ aux.before.current_node # cur.seq.current_node

\* C20: in heads-up sequencing, after an accepted action that is neither
\* terminal nor an all-in raise (a check, a call not facing an all-in, a bet
\* or a sized raise), the expected actor becomes the opposing position and
\* the current node becomes that position's child under the action node.
C20_OpponentExpectedNext ==
    (RowRead /\ Accepted
        /\ aux.row.type # "fold"
        /\ aux.row.type \notin {"all_in_preflop", "all_in_postflop", "all_in_call"}
        /\ ~(aux.row.type = "call" /\ aux.before.facing_all_in))
        => /\ cur.seq.current_position = aux.before.next_position
           /\ cur.seq.next_position = aux.before.current_position
           /\ cur.seq.current_node
                 = aux.before.current_node \o <<aux.row.type, aux.before.next_position>>
           /\ cur.seq.current_node \in PathsOf(decision_tree)

\* the row ends the street of the hand: a fold, or a call or all_in_call made
\* while the branch is facing an all-in
EndsStreet ==
    \/ aux.row.type = "fold"
    \/ aux.row.type \in {"call", "all_in_call"} /\ aux.before.facing_all_in

\* the action node the row leads to
ActionNodeOfRow == GetAt(decision_tree, aux.before.current_node \o <<aux.row.type>>)

\* C21: the action node reached by an observed fold, or by a call or
\* all_in_call made while the branch is facing an all-in, is marked terminal
\* (is_terminal = true) in the tree, and after it no further action of that
\* street of the hand changes any count.
C21_TerminalNodeMarked ==
    RowRead =>
        /\ (Accepted /\ EndsStreet)
              => /\ Has(ActionNodeOfRow, "is_terminal")
                 /\ ActionNodeOfRow.is_terminal
        /\ aux.before.is_terminal => decision_tree = aux.tree_before

\* C22: when the accepted action is an all-in raise (all_in_preflop or
\* all_in_postflop), the opposing position's child node under that action
\* carries facing_all_in = true, whether this hand creates the child or an
\* earlier hand already created it.
C22_OpponentFacesAllIn ==
    (RowRead /\ Accepted /\ aux.row.type \in {"all_in_preflop", "all_in_postflop"})
        => /\ Has(ActionNodeOfRow.children, aux.before.next_position)
           /\ IsFacing(ActionNodeOfRow.children[aux.before.next_position])

C22_Witness ==
    /\ RowRead
    /\ Accepted
    /\ aux.row.type = "all_in_postflop"
    /\ (aux.before.current_node \o <<aux.row.type, aux.before.next_position>>)
          \in PathsOf(aux.tree_before)
    /\ IsFacing(ActionNodeOfRow.children[aux.before.next_position])

\* the row is an action other than fold, call and all_in_call by the player
\* who is facing an all-in
OtherActionFacingAllIn ==
    /\ aux.row.position = aux.before.current_position
    /\ ~aux.before.is_terminal
    /\ aux.before.facing_all_in
    /\ aux.row.type \notin {"call", "fold", "all_in_call"}

\* C23: every child of a node flagged facing_all_in is named fold, call or
\* all_in_call, and each such child is a leaf: any other action by the player
\* facing the all-in is skipped without changing any count or creating a node.
C23_FacingChildrenAreLeaves ==
    RowRead =>
        /\ \A p \in PathsOf(decision_tree) :
              LET n == GetAt(decision_tree, p)
              IN IsFacing(n) =>
                    \A c \in DOMAIN n.children :
                        /\ c \in {"fold", "call", "all_in_call"}
                        /\ n.children[c].children = EmptyDict
        /\ OtherActionFacingAllIn
              => /\ decision_tree = aux.tree_before
                 /\ cur.seq = aux.before

C23_Witness ==
    /\ RowRead
    /\ OtherActionFacingAllIn
    /\ aux.row.type = "all_in_preflop"
    /\ IsFacing(GetAt(decision_tree, aux.before.current_node))
    /\ decision_tree = aux.tree_before

\* the names of the position children of a street's node
PositionsUnder(street) == DOMAIN decision_tree.children[street].children

\* C24: in a heads-up tree each street's sequence starts at the designated
\* first actor: every position child of the preflop street node is the
\* button/small-blind position and every position child of the flop, turn and
\* river street nodes is the big-blind position; actions by the other position
\* before the first actor has acted are skipped.
C24_StreetsStartAtFirstActor ==
    RowRead =>
        /\ \A p \in PositionsUnder("preflop") : IsBtnOrSb(p)
        /\ \A street \in {"flop", "turn", "river"} :
              \A p \in PositionsUnder(street) : IsBb(p)
        /\ (Len(aux.before.current_node) = 2
               /\ aux.row.position # aux.before.current_position)
              => /\ decision_tree = aux.tree_before
                 /\ cur.seq = aux.before

C24_Witness ==
    /\ RowRead
    /\ aux.before.current_node = <<"flop", "BB">>
    /\ aux.row.position = "BTN/SB"
    /\ PositionsUnder("flop") = {"BB"}
    /\ PositionsUnder("preflop") = {"BTN/SB"}
    /\ decision_tree = aux.tree_before

\* the categories counted in the hole-card maps of the node
CardKeys(node) ==
    (IF Has(node, "hole_cards") THEN DOMAIN node.hole_cards ELSE {})
    \cup (IF Has(node, "hero_hole_cards") THEN DOMAIN node.hero_hole_cards ELSE {})

\* C25: no node's hole_cards or hero_hole_cards map ever contains the
\* "Unknown" category or any key outside the 169 standard starting-hand
\* categories, both at the acting position's node and at the action child,
\* for any hole-card strings the importer supplies.
C25_OnlyStandardCategories ==
    pc = "cards_done" =>
        \A n \in NodesOf(decision_tree) :
            /\ "Unknown" \notin CardKeys(n)
            /\ CardKeys(n) \subseteq get_all_hand_categories

-----------------------------------------------------------------------------
(* Properties of the completion pass *)

\* the facing_all_in nodes of the tree that have a child of each kind
FacingWith(tree, observed, synthetic) ==
    {n \in NodesOf(tree) :
        /\ IsFacing(n)
        /\ Has(n.children, observed) /\ ~IsSynthetic(n.children[observed])
        /\ Has(n.children, synthetic) /\ IsSynthetic(n.children[synthetic])}

\* C26: the completion pass is idempotent: applying complete_terminal_actions
\* again to an already completed tree changes nothing (no node is added and
\* no flag or count changes).
C26_CompletionIdempotent ==
    /\ pc = "merge" =>
          LET completed == CompleteStreets(decision_tree)
          IN CompleteStreets(completed) = completed
    /\ pc = "merged" => CompleteStreets(decision_tree) = decision_tree

C26_Witness ==
    /\ pc = "merged"
    /\ FacingWith(decision_tree, "fold", "call") # {}
    /\ \E n \in NodesOf(decision_tree) :
          /\ IsFacing(n)
          /\ IsSynthetic(n.children["fold"])
          /\ IsSynthetic(n.children["call"])

\* the node a synthetic node must be
IsBareSynthetic(n) ==
    /\ IsSynthetic(n)
    /\ n.name \in {"fold", "call"}
    /\ n.actions = EmptyDict
    /\ n.hero_actions = EmptyDict
    /\ n.children = EmptyDict
    /\ Has(n, "is_terminal") /\ n.is_terminal
    /\ n.total_count = 0
    /\ n.non_hero_count = 0

\* the counts of the node of the sequenced tree are those of the finished node
SameCounts(old, n) ==
    /\ ~IsSynthetic(n)
    /\ \A f \in {"actions", "hero_actions", "hole_cards", "hero_hole_cards"} :
          /\ Has(old, f) <=> Has(n, f)
          /\ Has(old, f) => old[f] = n[f]

\* C27: the completion pass adds a synthetic fold or call child only where
\* that child is missing: an observed fold or call child under a
\* facing_all_in node keeps its counts and is never flagged synthetic, and
\* every synthetic node has no action counts, no children, is_terminal = true
\* and total_count = non_hero_count = 0 after aggregation, so the pass changes
\* the totals of no observed node.
C27_SyntheticOnlyWhereMissing ==
    [][(pc = "merge" /\ pc' = "merged") =>
          LET uncompleted == calculate_frequencies(decision_tree)
          IN \A p \in PathsOf(decision_tree') :
                LET n == GetAt(decision_tree', p)
                IN IF p \in PathsOf(decision_tree)
                   THEN /\ SameCounts(GetAt(decision_tree, p), n)
                        /\ n.total_count = GetAt(uncompleted, p).total_count
                        /\ n.non_hero_count = GetAt(uncompleted, p).non_hero_count
                   ELSE /\ IsBareSynthetic(n)
                        /\ IsFacing(GetAt(decision_tree, SubSeq(p, 1, Len(p) - 1)))
    ]_vars

C27_Witness ==
    /\ pc = "merged"
    /\ \E n \in FacingWith(decision_tree, "call", "fold") :
          /\ n.children["call"].total_count = 0
          /\ n.actions["call"] > 0
          /\ n.total_count > 0
          /\ n.children["fold"].total_count = 0

-----------------------------------------------------------------------------
(* Properties of the non-heads-up sequencing *)

\* the preflop rows of the game made from the position, in action order
PositionRows(game, position) ==
    SelectSeq(game.rows,
              LAMBDA x : x.round = 1 /\ game.players[x.player].position = position)

\* the node at which the k-th of the rows is counted: the position's node of
\* the street, then the buckets of the rows before it
ChainPath(street, position, rows, k) ==
    <<street, position>> \o [i \in 1..(k - 1) |-> rows[i].type]

\* the count of the bucket at the path, 0 where the tree has no such node
CountOrZero(tree, path, bucket) ==
    IF path \in PathsOf(tree) THEN CountAt(tree, path, bucket) ELSE 0

\* C28: in non-heads-up mode each position's actions in a street form their
\* own chain: the k-th action of a position is counted at the node reached
\* from the street's node for that position by following that position's
\* previous k-1 buckets, independently of the other positions' actions, and
\* no position node appears below the street's position level.
C28_PositionChains ==
    [][(pc = "merge" /\ inp.game_type = "all" /\ budget'.games = budget.games + 1) =>
          LET game == aux[budget.games + 1]
          IN /\ \A position \in PositionNames :
                   LET rows == PositionRows(game, position)
                   IN \A k \in 1..Len(rows) :
                         LET path == ChainPath("preflop", position, rows, k)
                         IN CountOrZero(decision_tree', path, rows[k].type)
                               = CountOrZero(decision_tree, path, rows[k].type) + 1
             /\ \A path \in PathsOf(decision_tree') :
                   Len(path) >= 3 => path[Len(path)] \notin PositionNames
    ]_vars

C28_Witness ==
    /\ pc = "merge"
    /\ inp.game_type = "all"
    /\ budget.games = 2
    /\ CountOrZero(decision_tree, <<"preflop", "unknown", "small_raise_preflop">>, "call") = 1
    /\ CountOrZero(decision_tree, <<"preflop", "BTN/SB">>, "small_raise_preflop") = 1
    /\ CountOrZero(decision_tree, <<"preflop", "BB">>, "call") = 1

-----------------------------------------------------------------------------
(* Properties of the order of a load *)

\* every node of the tree has its totals
HasTotals(tree) ==
    \A n \in NodesOf(tree) : Has(n, "total_count") /\ Has(n, "non_hero_count")

\* every facing_all_in node of the tree has both answers
IsCompleted(tree) ==
    \A n \in NodesOf(tree) :
        IsFacing(n) => Has(n.children, "call") /\ Has(n.children, "fold")

\* C29: load_decision_tree_data follows a fixed order: all hands are
\* sequenced, then the completion pass runs on every street, then
\* calculate_frequencies runs once over the whole tree, and only then is the
\* tree returned and registered for navigation; every node of a returned
\* tree, synthetic nodes included, has total_count and non_hero_count set.
C29_LoadOrder ==
    [][/\ (pc # "done" /\ IsTree(decision_tree))
             => /\ ~Has(decision_tree, "total_count")
                /\ store.data = None
                /\ tree_data_cache = EmptyDict
       /\ (pc # "done" /\ pc' = "done" /\ IsTree(decision_tree'))
             => /\ IsCompleted(decision_tree')
                /\ HasTotals(decision_tree')
                /\ decision_tree'.total_count
                      = SumOver([c \in StreetNames |->
                                    decision_tree'.children[c].total_count],
                                StreetNames)
                /\ store'.data = decision_tree'
                /\ \E id \in DOMAIN tree_data_cache' : tree_data_cache'[id] = decision_tree'
       /\ pc = "done" => pc' = "done" /\ decision_tree' = decision_tree
    ]_vars

C29_Witness ==
    /\ Returned
    /\ budget.actions = MaxActions
    /\ \E n \in NodesOf(decision_tree) :
          IsSynthetic(n) /\ Has(n, "total_count") /\ n.total_count = 0
    /\ decision_tree.total_count > 0
    /\ \E id \in DOMAIN tree_data_cache : tree_data_cache[id] = decision_tree

-----------------------------------------------------------------------------
(* Properties of composite keys *)

\* the path in which every key is replaced by its last '-'-separated component
LastComponents(path) == [i \in 1..Len(path) |-> PlainKey(path[i][Len(path[i])])]

\* the first key of the path is a composite key that ends in '-root'
StartsWithCompositeRoot(path) ==
    /\ path # <<>>
    /\ Len(path[1]) > 1
    /\ path[1][Len(path[1])] = "root"

\* paths to look up: for each node of the tree, the ids the graph gives the
\* nodes on its path, composite keys of other parents, with and without the
\* leading 'root', and its keys after the composite first key 'XYZ-root'
CompositeProbes(tree) ==
    UNION {{<<RootKey>> \o IdKeys(q), <<RootKey>> \o OddKeys(q), OddKeys(q),
            <<<<"XYZ", "root">>>> \o Keys(q)} : q \in PathsOf(tree)}

\* the load of the listed games has finished
Loaded == pc = "merged"

\* C30 as stated: get_node_by_path treats a key containing the separator '-'
\* as a composite label and looks up only the component after the last '-':
\* resolving a path gives the same result as resolving the path in which
\* every key is replaced by its last '-'-separated component.
C30_LastComponentsResolveAlike ==
    Loaded =>
        \A path \in CompositeProbes(decision_tree) :
            get_node_by_path(decision_tree, path)
                = get_node_by_path(decision_tree, LastComponents(path))

\* C30 amended: resolving a path gives the same result as resolving the path
\* of the last components of its keys, unless the first key is a composite
\* key ending in '-root': that key is looked up as a child named root, which
\* the tree root does not have, and the path is not found, while the plain
\* first key 'root' denotes the tree root.
C30_LastComponentsUnlessCompositeRoot ==
    Loaded =>
        \A path \in CompositeProbes(decision_tree) :
            IF StartsWithCompositeRoot(path)
            THEN /\ get_node_by_path(decision_tree, path) = None
                 /\ get_node_by_path(decision_tree, LastComponents(path))
                       = get_node_by_path(decision_tree, Tail(path))
            ELSE get_node_by_path(decision_tree, path)
                    = get_node_by_path(decision_tree, LastComponents(path))

C30_Witness ==
    /\ Loaded
    /\ Has(decision_tree.children["flop"].children, "BB")
    /\ LET node == decision_tree.children["flop"].children["BB"]
           ids == <<RootKey, <<"root", "flop">>, <<"root", "flop", "BB">>>>
           odd == <<<<"XYZ", "root">>, PlainKey("flop"), PlainKey("BB")>>
       IN /\ get_node_by_path(decision_tree, ids) = node
          /\ LastComponents(ids) = Keys(<<"root", "flop", "BB">>)
          /\ get_node_by_path(decision_tree, LastComponents(ids)) = node
          /\ get_node_by_path(decision_tree, odd) = None
          /\ get_node_by_path(decision_tree, LastComponents(odd)) = node

-----------------------------------------------------------------------------
(* Properties of the tree cache and the memoized lookup *)

\* C31: for any sequence of tree registrations (load_data), cache cleanings
\* (clean_cache) and lookups, get_node_by_path_cached(tree_id, path) returns
\* the same result as get_node_by_path on the tree currently registered
\* under tree_id, including for trees registered after clean_cache has
\* trimmed the tree cache; a result memoized earlier (a not-found obtained
\* before the tree was registered, or a node of an earlier tree with the same
\* id) is never returned in its place.
C31_CachedLookupAgrees ==
    (pc = "session" /\ aux.last # None /\ Has(tree_data_cache, aux.last.tree_data_id))
        => aux.last.result
              = get_node_by_path(tree_data_cache[aux.last.tree_data_id], aux.last.path)

\* C32: clean_cache is the explicit cache-clear operation: after it returns
\* the memoized lookup cache is empty and the tree cache holds at most 5
\* trees, and when it held more than 5 exactly the 3 most recently registered
\* trees are kept; the tree cache written by load_data and the one read by
\* get_node_by_path_cached stay the same mapping.
C32_CleanCacheKeepsOneMapping ==
    [][pc = "session" =>
          /\ (budget' = budget) =>
                /\ aux'.lru = EmptyDict
                /\ Cardinality(DOMAIN tree_data_cache') <= TrimAbove
                /\ Cardinality(DOMAIN tree_data_cache) > TrimAbove
                      => DOMAIN tree_data_cache'
                            = LastKeys(DOMAIN tree_data_cache, KeptEntries)
          /\ aux'.analysis = tree_data_cache'
    ]_vars

\* C33: a tree that load_data registered is never modified afterwards: every
\* step of a session (a load, a lookup, clean_cache) leaves each tree that
\* either cache dict holds as it was, and a load stores its tree as a new
\* entry under an id no registered tree has.
C33_RegisteredTreesFrozen ==
    [][pc = "session" =>
          /\ \A id \in DOMAIN tree_data_cache \cap DOMAIN tree_data_cache' :
                tree_data_cache'[id] = tree_data_cache[id]
          /\ \A id \in DOMAIN aux.analysis :
                Has(aux'.analysis, id) /\ aux'.analysis[id] = aux.analysis[id]
          /\ \A id \in DOMAIN tree_data_cache' \ DOMAIN tree_data_cache :
                ~Has(aux.analysis, id) /\ tree_data_cache'[id] = decision_tree'
    ]_vars

\* trees of different filters are registered, the cache was trimmed, another
\* tree was loaded and a path was looked up
C33_Witness ==
    /\ pc = "session"
    /\ ~aux.shared
    /\ aux.last # None
    /\ Cardinality(DOMAIN tree_data_cache) > KeptEntries
    /\ \E i, j \in DOMAIN tree_data_cache : tree_data_cache[i] # tree_data_cache[j]

-----------------------------------------------------------------------------
(* Properties of the navigation callbacks *)

\* a tree is loaded and it is not the error value
NavLoaded == pc = "nav" /\ decision_tree # None /\ ~Has(decision_tree, "error")

\* C36: after every navigation event on a loaded tree the stored path
\* resolves to a node of that tree; a callback whose computed path does not
\* resolve leaves the stored path as it was, and a path go_back shortened
\* still has two elements or more.
C36_StoredPathResolves ==
    [][NavLoaded' =>
          /\ get_node_by_path(decision_tree', Keys(aux'.path)) # None
          /\ ~aux'.resolved => aux'.path = aux.path
          /\ (aux'.event = "go_back" /\ aux'.path # aux.path) =>
                /\ Len(aux'.path) >= 2
                /\ aux'.path = SubSeq(aux.path, 1, Len(aux.path) - 1)
    ]_vars

\* a decision that is no child of the current node was selected three levels
\* below the root
C36_Witness ==
    /\ NavLoaded
    /\ aux.event = "handle_decision_selection"
    /\ ~aux.resolved
    /\ Len(aux.path) > 3

-----------------------------------------------------------------------------
(* Properties of the drawn tree *)

\* the node of the tree a drawn element stands for
NodeOfElement(e) == GetAt(decision_tree, e.original_id)

\* C35: build_tree_elements flags a node terminal only if it is a leaf of the
\* tree, and never flags a facing_all_in decision node terminal: when drawn
\* above the depth limit its children are drawn too.
C35_TerminalOnlyLeaves ==
    pc = "view" =>
        \A e \in aux.elements :
            e.by = "build_tree_elements" =>
                /\ e.terminal => DOMAIN NodeOfElement(e).children = {}
                /\ IsFacing(NodeOfElement(e)) =>
                      /\ ~e.terminal
                      /\ e.depth < ViewDepth =>
                            \A c \in DOMAIN NodeOfElement(e).children :
                                <<e.original_id, Append(e.original_id, c)>> \in aux.edges

-----------------------------------------------------------------------------
(* Properties of the all-in test of the sequencing *)

\* C37: facing_all_in arises only from an actual all-in raise: an accepted
\* row of any other bucket, consider_all_in_preflop included, leaves the
\* sequencer's facing_all_in as it was and puts no flagged child under its
\* action node, so the opponent's next raise, bet, check or call is treated
\* as a regular action.
C37_FacingOnlyAfterAllInRaise ==
    (RowRead /\ Accepted /\ aux.row.type \notin {"all_in_preflop", "all_in_postflop"})
        => /\ cur.seq.facing_all_in = aux.before.facing_all_in
           /\ \A c \in DOMAIN ActionNodeOfRow.children :
                 ~IsFacing(ActionNodeOfRow.children[c])

-----------------------------------------------------------------------------
(* Properties of the stack used by the all-in test *)

\* the chips the player holds after the first n <action> elements of the
\* game: the chips attribute less the sums of the player's actions
RECURSIVE ChipsAfter(_, _, _)
ChipsAfter(player, elements, n) ==
    IF n = 0 THEN XmlChips[player]
    ELSE IF elements[n].player = player
         THEN Max(0, ChipsAfter(player, elements, n - 1) - elements[n].sum)
         ELSE ChipsAfter(player, elements, n - 1)

\* the <action> element read last
LastElement == aux.elements[Len(aux.elements)]

\* C39: a preflop raise of less than 98% of the chips the player held before
\* making it is not bucketed all_in_preflop.
C39_AllInAgainstPreActionStack ==
    (/\ pc = "xml_rounds"
     /\ aux.elements # <<>>
     /\ LastElement.round = 1
     /\ get_action_type(LastElement.type) = "raise"
     /\ LastElement.sum * 100
           < 98 * ChipsAfter(LastElement.player, aux.elements, Len(aux.elements) - 1))
        => \A i \in 1..Len(aux.actions_data) :
              aux.actions_data[i].action_order = aux.action_order
                  => aux.actions_data[i].simple_action_type # "all_in_preflop"

-----------------------------------------------------------------------------
(* Properties of process_directory *)

\* lines 616-620: the results of the files processed one after the other
SequentialResults == [i \in DOMAIN aux.files |-> process_xml_file(aux.files[i])]

\* the chunk of the run is written
ChunkWritten == pc = "ingest" /\ aux.phase = "written"

\* C34: whatever the order in which the workers start and complete, the
\* results are collected in the order of submission, and the tables and the
\* counters after the chunk are those of processing the files one after the
\* other; a worker's result depends on its file alone.
C34_RowsAsSequential ==
    /\ pc = "ingest" =>
          \A i \in 1..Len(aux.results) : aux.results[i] = SequentialResults[i]
    /\ ChunkWritten =>
          LET sequential == write_chunk(
                  [aux EXCEPT !.db = aux.before,
                              !.existing_games =
                                  {aux.before.games[i].game_id : i \in 1..Len(aux.before.games)},
                              !.total_games = 0, !.total_actions = 0],
                  SequentialResults)
          IN /\ aux.db = sequential.db
             /\ aux.total_games = sequential.total_games
             /\ aux.total_actions = sequential.total_actions
             /\ aux.successful_files =
                   Cardinality({i \in DOMAIN aux.files : aux.files[i].success})

\* the second file completed before the first and the chunk of two different
\* games is written
C34_Witness ==
    /\ ChunkWritten
    /\ Len(aux.done_order) = 2
    /\ aux.done_order[1] = 2
    /\ aux.files[1].success /\ aux.files[2].success
    /\ aux.files[1].game_id # aux.files[2].game_id

\* C40: a run of process_directory over files whose games are already stored
\* adds no row to any table.
C40_IngestionIdempotent ==
    (ChunkWritten /\ aux.run > 1) => aux.db = aux.before

-----------------------------------------------------------------------------
(* Properties of the hero's counts *)

\* the nodes of the tree that count actions
CountingNodes == {n \in NodesOf(decision_tree) : Has(n, "actions")}

\* C38: after every row of the sequencing each node counts, for each bucket,
\* no more hero actions than actions, so the node's non-hero action count as
\* calculate_frequencies computes it is its total action count less the sum
\* of its hero actions.
C38_HeroCountsWithinCounts ==
    pc = "street" =>
        \A n \in CountingNodes :
            /\ DOMAIN n.hero_actions = DOMAIN n.actions
            /\ \A bucket \in DOMAIN n.actions : n.hero_actions[bucket] <= n.actions[bucket]
            /\ DOMAIN n.actions # {} =>
                  WithActionCounts(n).non_hero_action_count
                      = WithActionCounts(n).total_action_count - SumValues(n.hero_actions)

\* a node counts two actions of a bucket, one of them the hero's
C38_Witness ==
    /\ pc = "street"
    /\ \E n \in CountingNodes : \E bucket \in DOMAIN n.actions :
          n.actions[bucket] = 2 /\ n.hero_actions[bucket] = 1

====
